---- MODULE Spec2Model ----
(***************************************************************************)
(* Dual-motor smooth-ramp / direction-reversal state machine of the        *)
(* esp32_mqtt_controller_MOTORS sketch (hardware.cpp), driven by the       *)
(* command handlers controlMotor1/controlMotor2, the STOP path of          *)
(* mqttCallback (turnOffHardware) and the periodic updateMotorSmoothly     *)
(* (specification Spec); the MQTT message callbacks of the MOTORS, RELAY   *)
(* and esp32_mqtt_controller sketches (specification SpecDispatch); and    *)
(* the WiFi / broker reconnect loops of all sketches (SpecConn); the       *)
(* speed round trip (SpecRoundTrip) and the run-loop safety monitor        *)
(* (SpecSafety); the RELAY expander writes (SpecHardware) and effect       *)
(* groups (SpecEffects); and the debounce of esp32_mqtt_button             *)
(* (SpecButton).                                                           *)
(***************************************************************************)
EXTENDS Integers, Sequences, FiniteSets, TLC

VARIABLES
  motor,        \* motor1State / motor2State, indexed 1 and 2
  ledc,         \* duty last written with ledcWrite to the LEFT / RIGHT pin of each motor
  enablePin,    \* level last written to MOTORx_ENABLE_PIN (TRUE = HIGH)
  hardwareOff,  \* global flag hardwareOff
  now,          \* millis()
  lastCmd,      \* history: per motor, the last command handled and what it met
  focus,        \* the motor that receives the full command set in this run
  cmds,         \* number of commands handled so far
  variant,      \* the sketch that runs: "MOTORS", "RELAY", "CTRL" (esp32_mqtt_controller), "BUTTON"
  relay,        \* RELAY sketch: deviceStates, expanderState, effect groups, lastCommandTime
  gpio,         \* esp32_mqtt_controller sketch: levels of MOTOR_PIN, LIGHT_PIN, STEAM_PIN
  conn,         \* WiFi / broker connection state and the statics of the reconnect loops
  pub,          \* the publishes made by the handler that ran last, in order
  msg,          \* history: the inbound message handled last
  button        \* esp32_mqtt_button sketch: the statics of wasButtonPressed and its history

sketchVars == <<variant, relay, gpio, conn, pub, msg, button>>

vars == <<motor, ledc, enablePin, hardwareOff, now, lastCmd, focus, cmds,
          variant, relay, gpio, conn, pub, msg, button>>

----------------------------------------------------------------------------
(* Program constants (config.cpp) *)
SMOOTH_STEP == 8
SMOOTH_DELAY == 15

(* Bounds of the exploration: the clock stops after MaxTicks update periods,
   and a run holds at most MaxCmds commands (ON, OFF, SPEED, DIR, STOP),
   interleaved with the updates in every possible way *)
MaxTicks == 4
MaxCmds == 3

(* Inputs.  Speeds: zero, a value that is not a multiple of SMOOTH_STEP, and
   a value above 100 (atoi() output is not range-checked anywhere).  Ramps:
   no ramp, a ramp that is over at the next update, and a 30 s ramp that
   outlasts the run. *)
Motors == {1, 2}
Speeds == {0, 5, 110}
Dirs == {"L", "R"}
Ramps == {0, 15, 30000}
TickDeltas == {15}

(* The motor that is not in focus only receives this ON command (a long
   timed ramp), which is what lets its block of updateMotorSmoothly return
   before the other motor's block runs. *)
OtherOn == {<<5, "L", 30000>>}

----------------------------------------------------------------------------
(* 32-bit arithmetic of the target (unsigned long / long / int are 32 bits).
   An unsigned long is kept as two 16-bit limbs <<hi, lo>>, value
   hi * 65536 + lo, so that products and quotients wrap as they do on the
   device.  Clock values and ramp durations stay far below 2^31 within
   MaxTicks periods, so sums and differences of times are the plain integer ones. *)
Limb == 65536
MaxLong == 2147483647

(* conversion long -> unsigned long (two's complement) *)
ToUnsigned(x) ==
  IF x >= 0 THEN <<x \div Limb, x % Limb>>
            ELSE <<(Limb - 1) - ((-x - 1) \div Limb), (Limb - 1) - ((-x - 1) % Limb)>>

(* unsigned long * unsigned long, modulo 2^32 (e below 2^15) *)
MulUnsigned(a, e) ==
  LET low == a[2] * e
  IN <<(a[1] * e + (low \div Limb)) % Limb, low % Limb>>

(* unsigned long / unsigned long (d below 2^15) *)
DivUnsigned(a, d) ==
  <<a[1] \div d, ((a[1] % d) * Limb + a[2]) \div d>>

(* conversion unsigned long -> int *)
ToInt(a) ==
  IF a[1] >= Limb \div 2 THEN (a[1] - Limb) * Limb + a[2] ELSE a[1] * Limb + a[2]

TruncDiv(a, b) == IF a >= 0 THEN a \div b ELSE -((-a) \div b)

Min(a, b) == IF a < b THEN a ELSE b
Max(a, b) == IF a > b THEN a ELSE b

----------------------------------------------------------------------------
(* MotorState aggregate {false, 0, 0, 0, 'S', 0, false, 0, 0, false, 0, 0, 0};
   the char newDirection initialised with 0 is written "0" here *)
MotorOff ==
  [enabled |-> FALSE, speed |-> 0, currentSpeed |-> 0, targetSpeed |-> 0,
   direction |-> "S", lastUpdate |-> 0,
   pendingDirectionChange |-> FALSE, newDirection |-> "0", savedSpeed |-> 0,
   rampActive |-> FALSE, rampStartTime |-> 0, rampDurationMs |-> 0,
   rampStartSpeed |-> 0]

PinsOff == [L |-> 0, R |-> 0]

(* history records *)
NoCmd == [name |-> "NONE", dir |-> "-", moving |-> FALSE, from |-> "S",
          pending |-> FALSE, ramping |-> FALSE]

Met(ms, name, dir) ==
  [name |-> name, dir |-> dir, moving |-> ms.currentSpeed > 0,
   from |-> ms.direction, pending |-> ms.pendingDirectionChange,
   ramping |-> ms.rampActive]

----------------------------------------------------------------------------
(* updateMotorPWM: the duties the call can leave on the two pins.  map() is
   (speed * 255) / 100 in long arithmetic; when the product leaves the range
   of a 32-bit long the multiplication is undefined and any constrained duty
   may result. *)
PwmValues(speed) ==
  IF speed > MaxLong \div 255 \/ speed < -(MaxLong \div 255)
    THEN 0..255
    ELSE {Max(0, Min(255, TruncDiv(speed * 255, 100)))}

(* variant of updateMotorPWM: the duty goes to the other pin *)
updateMotorPWM_Swapped(pins, speed, direction, pwmValue) ==
  IF speed = 0 THEN [L |-> 0, R |-> 0]
  ELSE IF direction = "L" THEN [L |-> 0, R |-> pwmValue]
  ELSE IF direction = "R" THEN [L |-> pwmValue, R |-> 0]
  ELSE pins

updateMotorPWM(pins, speed, direction, pwmValue) ==
  IF speed = 0 THEN [L |-> 0, R |-> 0]
  ELSE IF direction = "L" THEN [L |-> pwmValue, R |-> 0]
  ELSE IF direction = "R" THEN [L |-> 0, R |-> pwmValue]
  ELSE pins

----------------------------------------------------------------------------
(* One motor's block of updateMotorSmoothly at time t.  Result: the new
   state, whether updateMotorPWM was called, and whether the function
   returned from inside the block. *)
RampInterpolate(ms, t) ==
  LET elapsedTime == t - ms.rampStartTime
      deltaSpeed  == ms.targetSpeed - ms.rampStartSpeed
  IN ms.rampStartSpeed
       + ToInt(DivUnsigned(MulUnsigned(ToUnsigned(deltaSpeed), elapsedTime),
                           ms.rampDurationMs))

ApplyPendingDirection(ms) ==
  IF ms.pendingDirectionChange /\ ms.currentSpeed = 0
    THEN [ms EXCEPT !.direction = ms.newDirection,
                    !.targetSpeed = ms.savedSpeed,
                    !.pendingDirectionChange = FALSE]
    ELSE ms

(* variant of SmoothStep: the step is not clamped at the target *)
SmoothStep_NoClamp(ms, t) ==
  IF ms.currentSpeed # ms.targetSpeed
    THEN [ms |-> [ms EXCEPT
                    !.currentSpeed =
                       IF ms.currentSpeed < ms.targetSpeed
                         THEN ms.currentSpeed + SMOOTH_STEP
                         ELSE ms.currentSpeed - SMOOTH_STEP,
                    !.lastUpdate = t],
          render |-> TRUE, ret |-> FALSE]
    ELSE [ms |-> ms, render |-> FALSE, ret |-> FALSE]

SmoothStep(ms, t) ==
  IF ms.currentSpeed # ms.targetSpeed
    THEN [ms |-> [ms EXCEPT
                    !.currentSpeed =
                       IF ms.currentSpeed < ms.targetSpeed
                         THEN Min(ms.currentSpeed + SMOOTH_STEP, ms.targetSpeed)
                         ELSE Max(ms.currentSpeed - SMOOTH_STEP, ms.targetSpeed),
                    !.lastUpdate = t],
          render |-> TRUE, ret |-> FALSE]
    ELSE [ms |-> ms, render |-> FALSE, ret |-> FALSE]

(* variant of UpdateMotor: the end of a timed ramp leaves rampActive set *)
UpdateMotor_RampStaysActive(ms, t) ==
  IF t - ms.lastUpdate >= SMOOTH_DELAY
    THEN IF ms.rampActive /\ ~(t >= ms.rampStartTime + ms.rampDurationMs)
           THEN [ms |-> [ms EXCEPT !.currentSpeed = RampInterpolate(ms, t),
                                   !.lastUpdate = t],
                 render |-> TRUE, ret |-> TRUE]
           ELSE LET afterRamp ==
                      IF ms.rampActive
                        THEN [ms EXCEPT !.currentSpeed = ms.targetSpeed]
                        ELSE ms
                IN SmoothStep(ApplyPendingDirection(afterRamp), t)
    ELSE [ms |-> ms, render |-> FALSE, ret |-> FALSE]

UpdateMotor(ms, t) ==
  IF t - ms.lastUpdate >= SMOOTH_DELAY
    THEN IF ms.rampActive /\ ~(t >= ms.rampStartTime + ms.rampDurationMs)
           THEN [ms |-> [ms EXCEPT !.currentSpeed = RampInterpolate(ms, t),
                                   !.lastUpdate = t],
                 render |-> TRUE, ret |-> TRUE]
           ELSE LET afterRamp ==
                      IF ms.rampActive
                        THEN [ms EXCEPT !.currentSpeed = ms.targetSpeed,
                                        !.rampActive = FALSE]
                        ELSE ms
                IN SmoothStep(ApplyPendingDirection(afterRamp), t)
    ELSE [ms |-> ms, render |-> FALSE, ret |-> FALSE]

----------------------------------------------------------------------------
(* controlMotor1 / controlMotor2: the same text for motor 1 and motor 2.
   Result: the new motor state for a command at time t. *)
(* variant of the ON branch that leaves a pending reversal in place *)
MotorOn_KeepPending(ms, speed, direction, rampDuration, t) ==
  LET on == [ms EXCEPT !.enabled = TRUE, !.speed = speed,
                       !.direction = direction]
  IN IF rampDuration > 0
       THEN [on EXCEPT !.rampActive = TRUE, !.rampDurationMs = rampDuration,
                       !.rampStartTime = t,
                       !.rampStartSpeed = ms.currentSpeed,
                       !.targetSpeed = speed]
       ELSE [on EXCEPT !.targetSpeed = speed, !.rampActive = FALSE]

MotorOn(ms, speed, direction, rampDuration, t) ==
  LET on == [ms EXCEPT !.enabled = TRUE, !.speed = speed,
                       !.direction = direction,
                       !.pendingDirectionChange = FALSE]
  IN IF rampDuration > 0
       THEN [on EXCEPT !.rampActive = TRUE, !.rampDurationMs = rampDuration,
                       !.rampStartTime = t,
                       !.rampStartSpeed = ms.currentSpeed,
                       !.targetSpeed = speed]
       ELSE [on EXCEPT !.targetSpeed = speed, !.rampActive = FALSE]

(* variant of the OFF branch that leaves a running timed ramp alone *)
MotorOffCmd_KeepRamp(ms) ==
  [ms EXCEPT !.enabled = FALSE, !.speed = 0, !.targetSpeed = 0,
             !.pendingDirectionChange = FALSE]

MotorOffCmd(ms) ==
  [ms EXCEPT !.enabled = FALSE, !.speed = 0, !.targetSpeed = 0,
             !.pendingDirectionChange = FALSE, !.rampActive = FALSE]

(* variant of the SPEED branch without the test of enabled *)
MotorSpeed_NoEnabledTest(ms, speed) ==
  [ms EXCEPT !.speed = speed, !.targetSpeed = speed, !.rampActive = FALSE]

MotorSpeed(ms, speed) ==
  IF ms.enabled
    THEN [ms EXCEPT !.speed = speed, !.targetSpeed = speed, !.rampActive = FALSE]
    ELSE ms

(* variant of MotorDir: the direction is applied at once, also when moving *)
MotorDir_Immediate(ms, newDir) ==
  IF ms.enabled
    THEN [ms EXCEPT !.rampActive = FALSE, !.direction = newDir]
    ELSE ms

MotorDir(ms, newDir) ==
  IF ms.enabled
    THEN LET m0 == [ms EXCEPT !.rampActive = FALSE] IN
         IF m0.direction = newDir THEN m0
         ELSE IF m0.currentSpeed > 0
           THEN [m0 EXCEPT !.savedSpeed = m0.speed, !.newDirection = newDir,
                           !.pendingDirectionChange = TRUE, !.targetSpeed = 0]
           ELSE [m0 EXCEPT !.direction = newDir]
    ELSE ms

----------------------------------------------------------------------------
(* The sketches and their configuration (config.cpp of each sketch) *)
Variants == {"MOTORS", "RELAY", "CTRL", "BUTTON"}

MQTT_RETRY_INTERVAL(v) == IF v = "CTRL" THEN 5000 ELSE 2000
WIFI_RETRY_INTERVAL(v) == IF v = "CTRL" THEN 5000 ELSE 3000
MAX_RETRY_INTERVAL(v) == IF v = "CTRL" THEN 60000 ELSE 30000
STATUS_PUBLISH_INTERVAL(v) == IF v = "CTRL" THEN 30000 ELSE 15000
CONNECTION_CHECK_INTERVAL(v) == IF v = "CTRL" THEN 10000 ELSE 5000
MAX_WIFI_ATTEMPTS(v) == IF v = "MOTORS" THEN 3 ELSE IF v = "RELAY" THEN 10 ELSE 5
MAX_MQTT_ATTEMPTS(v) == IF v = "MOTORS" THEN 3 ELSE IF v = "RELAY" THEN 10 ELSE 5

CLIENT_ID(v) ==
  IF v = "RELAY" THEN "Room1_Relays_Ctrl"
  ELSE IF v = "BUTTON" THEN "Room1_ESP_Trigger"
  ELSE "esp32_wifi_controller"

(* Topics are kept as the sequence of their levels: "room1/light/3" is
   <<"room1", "light", "3">>; no level holds a '/'. *)
BASE_TOPIC_PREFIX == <<"room1">>
STATUS_TOPIC(v) == <<"devices", CLIENT_ID(v), "status">>

(* RELAY: DEVICES[] (name, pin, inverted; no device is inverted) and
   EFFECT_GROUPS[] (name, deviceIndices up to the -1 terminator) *)
DEVICE_COUNT == 8
DeviceIdx == 0..(DEVICE_COUNT - 1)
DEVICES ==
  [i \in DeviceIdx |->
     IF i = 0 THEN [name |-> <<"effect", "smoke">>, pin |-> 3, inverted |-> FALSE]
     ELSE IF i <= 3 THEN [name |-> <<"light", <<"1", "2", "3">>[i]>>, pin |-> i - 1,
                          inverted |-> FALSE]
     ELSE [name |-> <<"light", <<"4", "5", "6", "7">>[i - 3]>>, pin |-> i,
           inverted |-> FALSE]]

(* the expander output register with every device off: the bits (kept as
   the set of their numbers) of the inverted devices *)
ExpanderOff == {DEVICES[i].pin : i \in {j \in DeviceIdx : DEVICES[j].inverted}}

EFFECT_GROUP_COUNT == 2
GroupIdx == 0..(EFFECT_GROUP_COUNT - 1)
EFFECT_GROUPS ==
  [g \in GroupIdx |->
     IF g = 0 THEN [name |-> "group1", deviceIndices |-> <<6, 7>>,
                    minOnMs |-> 75, maxOnMs |-> 500,
                    minOffMs |-> 150, maxOffMs |-> 1500]
              ELSE [name |-> "alone", deviceIndices |-> <<2>>,
                    minOnMs |-> 60, maxOnMs |-> 100,
                    minOffMs |-> 2000, maxOffMs |-> 5000]]

(* startEffect draws the first switch time with random(10, 500) *)
RandomStart == {10, 499}

(* RELAY state after initializeHardware / initializeEffects *)
RelayOff ==
  [deviceStates |-> [i \in DeviceIdx |-> FALSE],
   allDevicesOff |-> TRUE,
   expanderState |-> ExpanderOff,
   groupActive |-> [g \in GroupIdx |-> FALSE],
   activeGroupIndex |-> [i \in DeviceIdx |-> -1],
   isEffectOn |-> [i \in DeviceIdx |-> FALSE],
   nextSwitchTime |-> [i \in DeviceIdx |-> 0],
   lastCommandTime |-> 0]

(* esp32_mqtt_controller pins after initializeHardware *)
GpioOff == [motor |-> FALSE, light |-> FALSE, steam |-> FALSE]

(* esp32_mqtt_button: the statics of hardware.cpp as initialised (levels
   HIGH / LOW).  History: ret is what the last call of wasButtonPressed
   returned; lowSince the time of the first sample of the unbroken run of
   LOW samples that the last sample belongs to (-1: the last sample was
   HIGH, or there is none); lowSettled whether a sample of that run was
   already taken more than DEBOUNCE_DELAY after its start; lastTrue the time
   of the last call that returned true (-1: none), trues the number of
   calls that returned true *)
ButtonIdle ==
  [lastButtonState |-> "HIGH", currentButtonState |-> "HIGH",
   lastDebounceTime |-> 0, lastValidPressTime |-> 0,
   ret |-> FALSE, lowSince |-> -1, lowSettled |-> FALSE, lastTrue |-> -1,
   trues |-> 0]

NoWill == [topic |-> <<>>, payload |-> "", retained |-> FALSE]

(* Connection state of sketch v after boot: the globals of wifi_manager.cpp
   and mqtt_manager.cpp and the statics of reconnectWiFi / connectToMqtt.
   wifi is WiFi.status() == WL_CONNECTED as setup's initializeWiFi left it,
   client is client.connected(), will the last-will registered with the
   broker for the open connection.  History: wifiFails / mqttFails count the
   failed attempts of a layer since its last successful attempt or the boot,
   event names what the connection code did last. *)
Boot(v, wifi) ==
  [wifi |-> wifi, wifiConnected |-> wifi,
   wifiAttempts |-> 0, wifiRetryInterval |-> WIFI_RETRY_INTERVAL(v), lastWifiAttempt |-> 0,
   client |-> FALSE, mqttConnected |-> FALSE,
   mqttAttempts |-> 0, mqttRetryInterval |-> MQTT_RETRY_INTERVAL(v), lastMqttAttempt |-> 0,
   lastStatusPublish |-> 0, lastStatusTime |-> 0, lastConnectionCheck |-> 0,
   will |-> NoWill,
   wifiFails |-> 0, mqttFails |-> 0, event |-> "boot"]

(* depth: how many calls of mqttCallback were open when the message was
   handled (1: called from mqttLoop's client.loop()); offs: how often the
   inactivity timeout has switched the devices off since *)
NoMsg == [topic |-> <<>>, payload |-> <<>>, up |-> FALSE, depth |-> 0, offs |-> 0]

----------------------------------------------------------------------------
(* Payloads are sequences of characters, so that the String operations of
   mqttCallback (indexOf, substring, toUpperCase, ==) and atoi / atol are
   computed on them. *)
Digit == <<"0", "1", "2", "3", "4", "5", "6", "7", "8", "9">>
IsDigit(c) == \E i \in 1..10 : Digit[i] = c
DigitVal(c) == (CHOOSE i \in 1..10 : Digit[i] = c) - 1

LowerCase == <<"a", "b", "c", "d", "e", "f", "g", "h", "i", "j", "k", "l", "m",
               "n", "o", "p", "q", "r", "s", "t", "u", "v", "w", "x", "y", "z">>
UpperCase == <<"A", "B", "C", "D", "E", "F", "G", "H", "I", "J", "K", "L", "M",
               "N", "O", "P", "Q", "R", "S", "T", "U", "V", "W", "X", "Y", "Z">>

(* String::toUpperCase *)
toUpperCase(s) ==
  [i \in 1..Len(s) |->
     IF \E k \in 1..26 : LowerCase[k] = s[i]
       THEN UpperCase[CHOOSE k \in 1..26 : LowerCase[k] = s[i]]
       ELSE s[i]]

(* String::indexOf(char): 0-based position of the first occurrence, -1 if none *)
indexOf(s, c) ==
  IF \E i \in 1..Len(s) : s[i] = c
    THEN (CHOOSE i \in 1..Len(s) : s[i] = c /\ \A j \in 1..(i - 1) : s[j] # c) - 1
    ELSE -1

(* String::substring(from) and substring(from, to), 0-based, to exclusive *)
substringFrom(s, from) == SubSeq(s, from + 1, Len(s))
substring(s, from, to) == SubSeq(s, from + 1, to)

(* atoi / atol: optional sign, then the longest run of digits; 0 when there
   is none.  (The payloads explored hold no leading white space and no
   number outside the range of int.) *)
RECURSIVE DigitRun(_, _, _)
DigitRun(s, i, acc) ==
  IF i <= Len(s) /\ IsDigit(s[i])
    THEN DigitRun(s, i + 1, acc * 10 + DigitVal(s[i]))
    ELSE acc

atoi(s) ==
  IF Len(s) > 0 /\ s[1] = "-" THEN -DigitRun(s, 2, 0)
  ELSE IF Len(s) > 0 /\ s[1] = "+" THEN DigitRun(s, 2, 0)
  ELSE DigitRun(s, 1, 0)

atol(s) == atoi(s)

(* direction[0] of a C string: its first character, the terminating 0
   (written "0", as in MotorOff) when the string is empty *)
FirstChar(s) == IF Len(s) = 0 THEN "0" ELSE s[1]

(* decimal representation of a natural number *)
RECURSIVE Dec(_)
Dec(n) == IF n < 10 THEN <<Digit[n + 1]>> ELSE Append(Dec(n \div 10), Digit[(n % 10) + 1])

(* the words of the payload grammar *)
W_ON == <<"O", "N">>
W_OFF == <<"O", "F", "F">>
W_SPEED == <<"S", "P", "E", "E", "D">>
W_DIR == <<"D", "I", "R">>
W_START == <<"S", "T", "A", "R", "T">>
W_STOP == <<"S", "T", "O", "P">>
W_0 == <<"0">>
W_1 == <<"1">>
W_50 == <<"5", "0">>
W_L == <<"L">>
Colon == <<":">>

(* payloads of the grammar ON[:<speed>[:<dir>[:<rampMs>]]], SPEED:<n>, DIR:<d> *)
OnSpeed(speed) == W_ON \o Colon \o Dec(speed)
OnSpeedDir(speed, dir) == OnSpeed(speed) \o Colon \o <<dir>>
OnSpeedDirRamp(speed, dir, rampMs) == OnSpeedDir(speed, dir) \o Colon \o Dec(rampMs)
SpeedPayload(speed) == W_SPEED \o Colon \o Dec(speed)
DirPayload(dir) == W_DIR \o Colon \o <<dir>>

----------------------------------------------------------------------------
Init ==
  /\ motor = [m \in Motors |-> MotorOff]
  /\ ledc = [m \in Motors |-> PinsOff]
  /\ enablePin = [m \in Motors |-> FALSE]
  /\ hardwareOff = TRUE
  /\ now = 0
  /\ lastCmd = [m \in Motors |-> NoCmd]
  /\ focus \in Motors
  /\ cmds = 0
  /\ variant = "MOTORS"
  /\ relay = RelayOff
  /\ gpio = GpioOff
  /\ button = ButtonIdle
  /\ conn = Boot("MOTORS", TRUE)
  /\ pub = <<>>
  /\ msg = NoMsg

CmdOn(m, speed, dir, ramp) ==
  /\ m = focus \/ <<speed, dir, ramp>> \in OtherOn
  /\ cmds < MaxCmds
  /\ cmds' = cmds + 1
  /\ motor' = [motor EXCEPT ![m] = MotorOn(motor[m], speed, dir, ramp, now)]
  /\ enablePin' = [enablePin EXCEPT ![m] = TRUE]
  /\ hardwareOff' = FALSE
  /\ lastCmd' = [lastCmd EXCEPT ![m] = Met(motor[m], "ON", dir)]
  /\ UNCHANGED <<ledc, now, focus, sketchVars>>

CmdOff(m) ==
  /\ m = focus
  /\ cmds < MaxCmds
  /\ cmds' = cmds + 1
  /\ motor' = [motor EXCEPT ![m] = MotorOffCmd(motor[m])]
  /\ lastCmd' = [lastCmd EXCEPT ![m] = Met(motor[m], "OFF", "-")]
  /\ UNCHANGED <<ledc, enablePin, hardwareOff, now, focus, sketchVars>>

CmdSpeed(m, speed) ==
  /\ m = focus
  /\ cmds < MaxCmds
  /\ cmds' = cmds + 1
  /\ motor' = [motor EXCEPT ![m] = MotorSpeed(motor[m], speed)]
  /\ lastCmd' = [lastCmd EXCEPT ![m] = Met(motor[m], "SPEED", "-")]
  /\ UNCHANGED <<ledc, enablePin, hardwareOff, now, focus, sketchVars>>

CmdDir(m, dir) ==
  /\ m = focus
  /\ cmds < MaxCmds
  /\ cmds' = cmds + 1
  /\ motor' = [motor EXCEPT ![m] = MotorDir(motor[m], dir)]
  /\ lastCmd' = [lastCmd EXCEPT ![m] = Met(motor[m], "DIR", dir)]
  /\ UNCHANGED <<ledc, enablePin, hardwareOff, now, focus, sketchVars>>

(* variant of turnOffHardware: a soft stop that leaves the slew to the updates *)
turnOffHardware_Soft ==
  /\ enablePin' = [m \in Motors |-> FALSE]
  /\ ledc' = ledc
  /\ motor' = [m \in Motors |-> MotorOffCmd(motor[m])]
  /\ hardwareOff' = TRUE

(* turnOffHardware: immediate shutdown of both motors *)
turnOffHardware ==
  /\ enablePin' = [m \in Motors |-> FALSE]
  /\ ledc' = [m \in Motors |-> PinsOff]
  /\ motor' = [m \in Motors |-> MotorOff]
  /\ hardwareOff' = TRUE

(* mqttCallback on the topic <base>STOP *)
CmdStop ==
  /\ turnOffHardware
  /\ cmds < MaxCmds
  /\ cmds' = cmds + 1
  /\ lastCmd' = [m \in Motors |-> Met(motor[m], "STOP", "-")]
  /\ UNCHANGED <<now, focus, sketchVars>>

(* updateMotorSmoothly at time t: motor 1's block and, unless that block
   returned, motor 2's block *)
updateMotorSmoothly(t) ==
  LET r1 == UpdateMotor(motor[1], t)
      r2 == IF r1.ret THEN [ms |-> motor[2], render |-> FALSE, ret |-> FALSE]
                      ELSE UpdateMotor(motor[2], t)
  IN /\ motor' = [m \in Motors |-> IF m = 1 THEN r1.ms ELSE r2.ms]
     /\ \E p1 \in PwmValues(r1.ms.currentSpeed), p2 \in PwmValues(r2.ms.currentSpeed) :
          ledc' = [m \in Motors |->
                     IF m = 1
                       THEN IF r1.render
                              THEN updateMotorPWM(ledc[1], r1.ms.currentSpeed, r1.ms.direction, p1)
                              ELSE ledc[1]
                       ELSE IF r2.render
                              THEN updateMotorPWM(ledc[2], r2.ms.currentSpeed, r2.ms.direction, p2)
                              ELSE ledc[2]]

(* One pass of the run loop: the clock advances by dt, then
   updateMotorSmoothly runs *)
Tick(dt) ==
  /\ now + dt <= MaxTicks * SMOOTH_DELAY
  /\ now' = now + dt
  /\ updateMotorSmoothly(now')
  /\ UNCHANGED <<enablePin, hardwareOff, lastCmd, focus, cmds, sketchVars>>

Next ==
  \/ \E m \in Motors, s \in Speeds, d \in Dirs, r \in Ramps : CmdOn(m, s, d, r)
  \/ \E m \in Motors : CmdOff(m)
  \/ \E m \in Motors, s \in Speeds : CmdSpeed(m, s)
  \/ \E m \in Motors, d \in Dirs : CmdDir(m, d)
  \/ CmdStop
  \/ \E dt \in TickDeltas : Tick(dt)

Spec == Init /\ [][Next]_vars

----------------------------------------------------------------------------
(* The message callbacks.  Bound and inputs of their exploration: a run
   handles at most MaxCmds inbound messages. *)
T_motor1 == <<"room1", "motor1">>
T_motor2 == <<"room1", "motor2">>
T_STOP == <<"room1", "STOP">>
T_light1 == <<"room1", "light", "1">>
T_alone == <<"room1", "effects", "alone">>
W_BLINK == <<"B", "L", "I", "N", "K">>

(* topics no sketch has a device for, and topics ending in /status or
   /feedback *)
OtherTopics ==
  { <<"room1", "lamp">>, <<"attic", "motor1">>, <<"room1", "status">>,
    <<"room1", "motor1", "feedback">>, <<"room1", "light", "1", "feedback">> }

MotorPayloads ==
  { W_ON, W_OFF, W_BLINK,
    OnSpeedDir(5, "R"), OnSpeedDirRamp(5, "L", 15),
    OnSpeedDir(110, "L"), OnSpeedDir(5, "X"),
    W_ON \o Colon \o <<"x">> \o Colon \o W_L,
    SpeedPayload(5), W_SPEED \o Colon \o <<"x">>,
    DirPayload("R"), DirPayload("X") }

(* The inbound messages <<topic, payload>> explored in sketch v *)
Inputs(v) ==
  IF v = "MOTORS"
    THEN ({T_motor1} \X MotorPayloads)
         \cup ({T_motor2} \X {OnSpeedDir(5, "R"), SpeedPayload(5)})
         \cup ((OtherTopics \cup {T_STOP}) \X {W_ON})
  ELSE IF v = "RELAY"
    THEN ({T_light1} \X {W_ON, <<"o", "n">>, W_1, W_OFF, W_0, W_BLINK})
         \cup ({T_alone} \X {W_ON, W_START, <<"o", "f", "f">>, W_BLINK})
         \cup ((OtherTopics \cup {T_STOP, <<"room1", "effects", "nogroup">>}) \X {W_ON})
  ELSE ({<<"room1", "motor">>} \X {W_START, W_STOP, W_ON})
       \cup ({<<"room1", "light">>} \X {W_ON, W_OFF, W_BLINK})
       \cup ({<<"room1", "steam">>} \X {W_ON, W_OFF})
       \cup (OtherTopics \X {W_ON})

(* The pairs of messages explored with the second one waiting in the
   transport while the first is handled *)
NestedFirst == { <<T_motor1, OnSpeedDir(5, "R")>>, <<T_motor1, W_BLINK>> }
NestedSecond == { <<T_motor1, W_OFF>>, <<T_STOP, W_ON>> }

(* String::endsWith("/" + level) and String::startsWith(prefix + "/") *)
endsWithLevel(topic, level) == Len(topic) >= 2 /\ topic[Len(topic)] = level
startsWithPrefix(topic, prefix) ==
  Len(topic) > Len(prefix) /\ SubSeq(topic, 1, Len(prefix)) = prefix

(* a publish request: PubSubClient::publish sends nothing and returns false
   when the client is not connected *)
PublishIf(connected, topic, text, arg, retained) ==
  IF connected
    THEN <<[topic |-> topic, text |-> text, arg |-> arg, retained |-> retained]>>
    ELSE <<>>

Publish(topic, text, arg, retained) == PublishIf(conn.client, topic, text, arg, retained)

(* MOTORS mqttCallback, lines 51-82: command, speed and direction strings *)
ParseMotorCommand(message) ==
  LET firstColon == indexOf(message, ":")
      plain == [command |-> message, speed |-> W_50, direction |-> W_L]
  IN IF firstColon > 0
       THEN LET baseCommand == substring(message, 0, firstColon)
                params == substringFrom(message, firstColon + 1)
                secondColon == indexOf(params, ":")
            IN IF baseCommand = W_ON
                 THEN IF secondColon > 0
                        THEN [command |-> baseCommand,
                              speed |-> substring(params, 0, secondColon),
                              direction |-> substringFrom(params, secondColon + 1)]
                        ELSE [command |-> baseCommand, speed |-> params, direction |-> W_L]
               ELSE IF baseCommand = W_DIR
                 THEN [command |-> baseCommand, speed |-> W_50, direction |-> params]
               ELSE IF baseCommand = W_SPEED
                 THEN [command |-> baseCommand, speed |-> params, direction |-> W_L]
               ELSE plain
       ELSE plain

IsMotorCommand(command) == command \in {W_ON, W_OFF, W_SPEED, W_DIR}

CommandName(command) ==
  IF command = W_ON THEN "ON" ELSE IF command = W_OFF THEN "OFF"
  ELSE IF command = W_SPEED THEN "SPEED" ELSE "DIR"

(* controlMotor1 / controlMotor2 on C strings: the MotorState it leaves *)
controlMotor(ms, command, speed, direction, rampTime, t) ==
  IF command = W_ON
    THEN MotorOn(ms, atoi(speed), FirstChar(direction), atol(rampTime), t)
  ELSE IF command = W_OFF THEN MotorOffCmd(ms)
  ELSE IF command = W_SPEED THEN MotorSpeed(ms, atoi(speed))
  ELSE IF command = W_DIR THEN MotorDir(ms, FirstChar(direction))
  ELSE ms

(* lines 89 / 97: controlMotorN(command, speed, direction); rampTime takes
   its default "0" *)
MotorDispatchOn(ms, message, t) ==
  LET p == ParseMotorCommand(message)
  IN controlMotor(ms, p.command, p.speed, p.direction, W_0, t)

MotorDispatch(m, message) == MotorDispatchOn(motor[m], message, now)

(* the MOTORS state a callback works on *)
MotorsState ==
  [motor |-> motor, ledc |-> ledc, enablePin |-> enablePin,
   hardwareOff |-> hardwareOff, lastCmd |-> lastCmd]

(* MOTORS mqttCallback up to the feedback publish (lines 15-118): the state
   it leaves when it starts in s, and its publish *)
motorsCallback(s, topic, message) ==
  LET statusTopic == BASE_TOPIC_PREFIX \o <<"status">>
      deviceType == SubSeq(topic, Len(BASE_TOPIC_PREFIX) + 1, Len(topic))
      p == ParseMotorCommand(message)
      m == IF deviceType = <<"motor1">> THEN 1 ELSE 2
      same == [motor |-> s.motor, ledc |-> s.ledc, enablePin |-> s.enablePin,
               hardwareOff |-> s.hardwareOff, lastCmd |-> s.lastCmd]
      answer(r, text) == r @@ [pub |-> Publish(statusTopic, text, <<>>, FALSE)]
  IN IF endsWithLevel(topic, "status")
       THEN same @@ [pub |-> <<>>]
     ELSE IF ~startsWithPrefix(topic, BASE_TOPIC_PREFIX)
       THEN answer(same, "ERROR_UNKNOWN_TOPIC")
     ELSE IF deviceType = <<"STOP">>
       THEN answer([motor |-> [k \in Motors |-> MotorOff],
                    ledc |-> [k \in Motors |-> PinsOff],
                    enablePin |-> [k \in Motors |-> FALSE],
                    hardwareOff |-> TRUE,
                    lastCmd |-> [k \in Motors |-> Met(s.motor[k], "STOP", "-")]],
                   "ALL_HARDWARE_STOPPED")
     ELSE IF deviceType \in {<<"motor1">>, <<"motor2">>}
       THEN IF IsMotorCommand(p.command)
              THEN answer([motor |-> [s.motor EXCEPT ![m] = MotorDispatchOn(s.motor[m], message, now)],
                           ledc |-> s.ledc,
                           enablePin |-> IF p.command = W_ON
                                           THEN [s.enablePin EXCEPT ![m] = TRUE]
                                           ELSE s.enablePin,
                           hardwareOff |-> IF p.command = W_ON THEN FALSE ELSE s.hardwareOff,
                           lastCmd |-> [s.lastCmd EXCEPT ![m] =
                                          Met(s.motor[m], CommandName(p.command),
                                              IF p.command \in {W_ON, W_DIR}
                                                THEN FirstChar(p.direction) ELSE "-")]],
                          "OK")
              ELSE answer(same, "ERROR_UNKNOWN_COMMAND")
     ELSE answer(same, "ERROR_UNKNOWN_DEVICE")

(* the callback leaves r *)
MotorsLeft(r) ==
  /\ motor' = r.motor
  /\ ledc' = r.ledc
  /\ enablePin' = r.enablePin
  /\ hardwareOff' = r.hardwareOff
  /\ lastCmd' = r.lastCmd
  /\ pub' = r.pub

(* MOTORS mqttCallback whose client.loop() (line 120) finds no inbound
   message waiting *)
mqttCallback_MOTORS(topic, message) ==
  /\ variant = "MOTORS"
  /\ MotorsLeft(motorsCallback(MotorsState, topic, message))
  /\ UNCHANGED <<relay, gpio>>

(* MOTORS mqttCallback for <<topic, message>> whose client.loop() (line
   120, reached after a successful publish) finds <<topic2, message2>>
   waiting and calls mqttCallback for it before the first call returns *)
mqttCallback_MOTORS_Nested(topic, message, topic2, message2) ==
  /\ variant = "MOTORS"
  /\ conn.client
  /\ LET r1 == motorsCallback(MotorsState, topic, message)
     IN /\ r1.pub # <<>>
        /\ MotorsLeft(motorsCallback(r1, topic2, message2))
  /\ UNCHANGED <<relay, gpio>>

(* variant of setDevice that writes the device's bit alone to the register *)
setDevice_Overwrite(r, i, state) ==
  IF i \notin DeviceIdx THEN r
  ELSE [r EXCEPT !.deviceStates[i] = state,
                 !.allDevicesOff = FALSE,
                 !.expanderState = IF state THEN {DEVICES[i].pin} ELSE {}]

(* RELAY hardware.cpp: setDevice (USE_RELAY_MODULE: I2C expander) *)
setDevice(r, i, state) ==
  IF i \notin DeviceIdx THEN r
  ELSE LET physicalBit == IF DEVICES[i].inverted THEN ~state ELSE state
       IN [r EXCEPT !.deviceStates[i] = state,
                    !.allDevicesOff = FALSE,
                    !.expanderState = IF physicalBit THEN @ \cup {DEVICES[i].pin}
                                                     ELSE @ \ {DEVICES[i].pin}]

turnOffAllDevices(r) ==
  [r EXCEPT !.expanderState = ExpanderOff,
            !.deviceStates = [i \in DeviceIdx |-> FALSE],
            !.allDevicesOff = TRUE]

(* the group named groupName, -1 when there is none *)
GroupNamed(groupName) ==
  IF \E g \in GroupIdx : EFFECT_GROUPS[g].name = groupName
    THEN CHOOSE g \in GroupIdx : EFFECT_GROUPS[g].name = groupName
    ELSE -1

(* startEffect: rnd[j] is the value random(10, 500) returns for the j-th
   device of the group *)
RECURSIVE ActivateDevices(_, _, _, _, _)
ActivateDevices(r, g, j, t, rnd) ==
  IF j > Len(EFFECT_GROUPS[g].deviceIndices) THEN r
  ELSE LET devIdx == EFFECT_GROUPS[g].deviceIndices[j]
       IN ActivateDevices([r EXCEPT !.activeGroupIndex[devIdx] = g,
                                    !.isEffectOn[devIdx] = FALSE,
                                    !.nextSwitchTime[devIdx] = t + rnd[j]],
                          g, j + 1, t, rnd)

(* variant of startEffect that activates the devices of an active group again *)
startEffect_Restart(r, groupName, t, rnd) ==
  LET g == GroupNamed(groupName)
  IN IF g = -1 THEN r
     ELSE ActivateDevices([r EXCEPT !.groupActive[g] = TRUE], g, 1, t, rnd)

startEffect(r, groupName, t, rnd) ==
  LET g == GroupNamed(groupName)
  IN IF g = -1 \/ r.groupActive[g] THEN r
     ELSE ActivateDevices([r EXCEPT !.groupActive[g] = TRUE], g, 1, t, rnd)

RECURSIVE ReleaseDevices(_, _, _)
ReleaseDevices(r, g, j) ==
  IF j > Len(EFFECT_GROUPS[g].deviceIndices) THEN r
  ELSE LET devIdx == EFFECT_GROUPS[g].deviceIndices[j]
       IN ReleaseDevices(IF r.activeGroupIndex[devIdx] = g
                           THEN setDevice([r EXCEPT !.activeGroupIndex[devIdx] = -1],
                                          devIdx, FALSE)
                           ELSE r,
                         g, j + 1)

stopEffectGroup(r, g) == ReleaseDevices([r EXCEPT !.groupActive[g] = FALSE], g, 1)

stopEffect(r, groupName) ==
  LET g == GroupNamed(groupName)
  IN IF g = -1 THEN r ELSE stopEffectGroup(r, g)

RECURSIVE stopAllEffectsFrom(_, _)
stopAllEffectsFrom(r, g) ==
  IF g >= EFFECT_GROUP_COUNT THEN r
  ELSE stopAllEffectsFrom(IF r.groupActive[g] THEN stopEffectGroup(r, g) ELSE r, g + 1)

(* variant of stopAllEffects that stops nothing *)
stopAllEffects_None(r) == r

stopAllEffects(r) == stopAllEffectsFrom(r, 0)

(* random(lo, hi) returns a value of lo..(hi - 1): its ends *)
RandomPicks == {"lo", "hi"}
random(lo, hi, pick) == IF pick = "lo" THEN lo ELSE hi - 1

(* handleEffects at time t, devices i..DEVICE_COUNT-1; pick selects what
   random() returns in this call *)
RECURSIVE handleEffectsFrom(_, _, _, _)
handleEffectsFrom(r, i, t, pick) ==
  IF i >= DEVICE_COUNT THEN r
  ELSE LET groupIdx == r.activeGroupIndex[i]
       IN IF groupIdx = -1 \/ ~r.groupActive[groupIdx]
            THEN handleEffectsFrom(r, i + 1, t, pick)
          ELSE IF t >= r.nextSwitchTime[i]
            THEN LET group == EFFECT_GROUPS[groupIdx]
                     on == ~r.isEffectOn[i]
                     nextInterval == IF on THEN random(group.minOnMs, group.maxOnMs, pick)
                                           ELSE random(group.minOffMs, group.maxOffMs, pick)
                     r1 == setDevice([r EXCEPT !.isEffectOn[i] = on], i, on)
                 IN handleEffectsFrom([r1 EXCEPT !.nextSwitchTime[i] = t + nextInterval],
                                      i + 1, t, pick)
          ELSE handleEffectsFrom(r, i + 1, t, pick)

handleEffects(r, t, pick) == handleEffectsFrom(r, 0, t, pick)

(* the index of the device named deviceName, -1 when there is none *)
DeviceNamed(deviceName) ==
  IF \E i \in DeviceIdx : DEVICES[i].name = deviceName
    THEN CHOOSE i \in DeviceIdx : DEVICES[i].name = deviceName
    ELSE -1

(* topicStr.indexOf("/effects/") != -1 *)
hasEffectsLevel(topic) == \E i \in 2..(Len(topic) - 1) : topic[i] = "effects"

mqttCallback_RELAY(topic, message, rnd) ==
  /\ variant = "RELAY"
  /\ IF endsWithLevel(topic, "feedback") \/ endsWithLevel(topic, "status")
       THEN pub' = <<>> /\ relay' = relay
     ELSE IF ~startsWithPrefix(topic, BASE_TOPIC_PREFIX)
       THEN pub' = <<>> /\ relay' = relay
     ELSE
       LET feedbackTopic == Append(topic, "feedback")
           r0 == [relay EXCEPT !.lastCommandTime = now]
           cmd == toUpperCase(message)
           deviceName == SubSeq(topic, Len(BASE_TOPIC_PREFIX) + 1, Len(topic))
           deviceIndex == DeviceNamed(deviceName)
       IN IF hasEffectsLevel(topic)
            THEN LET effectName == topic[Len(topic)]
                 IN IF cmd \in {W_ON, W_1, W_START}
                      THEN /\ relay' = startEffect(r0, effectName, now, rnd)
                           /\ pub' = Publish(feedbackTopic, "ACTIVE", <<>>, FALSE)
                    ELSE IF cmd \in {W_OFF, W_0, W_STOP}
                      THEN /\ relay' = stopEffect(r0, effectName)
                           /\ pub' = Publish(feedbackTopic, "INACTIVE", <<>>, FALSE)
                    ELSE relay' = r0 /\ pub' = <<>>
          ELSE IF deviceName = <<"STOP">>
            THEN /\ relay' = stopAllEffects(turnOffAllDevices(r0))
                 /\ pub' = Publish(feedbackTopic, "OK", <<>>, FALSE)
          ELSE IF deviceIndex >= 0 /\ cmd \in {W_ON, W_1}
            THEN /\ relay' = setDevice(r0, deviceIndex, TRUE)
                 /\ pub' = Publish(feedbackTopic, "OK", <<>>, FALSE)
          ELSE IF deviceIndex >= 0 /\ cmd \in {W_OFF, W_0}
            THEN /\ relay' = setDevice(r0, deviceIndex, FALSE)
                 /\ pub' = Publish(feedbackTopic, "OK", <<>>, FALSE)
          ELSE /\ relay' = r0
               /\ pub' = Publish(feedbackTopic, "ERROR", <<>>, FALSE)
  /\ UNCHANGED <<motor, ledc, enablePin, hardwareOff, lastCmd, gpio>>

(* esp32_mqtt_controller hardware.cpp: controlMotor / controlLight /
   controlSteam, each called with a command it knows *)
controlPin(pin, on) ==
  /\ gpio' = [gpio EXCEPT ![pin] = on]
  /\ hardwareOff' = IF on THEN FALSE ELSE hardwareOff

mqttCallback_CTRL(topic, message) ==
  /\ variant = "CTRL"
  /\ IF endsWithLevel(topic, "status")
       THEN pub' = <<>> /\ UNCHANGED <<gpio, hardwareOff>>
     ELSE
       LET statusTopic == BASE_TOPIC_PREFIX \o <<"status">>
           deviceType == SubSeq(topic, Len(BASE_TOPIC_PREFIX) + 1, Len(topic))
       IN IF ~startsWithPrefix(topic, BASE_TOPIC_PREFIX)
            THEN /\ pub' = Publish(statusTopic, "ERROR: Unknown topic prefix: ", topic, TRUE)
                 /\ UNCHANGED <<gpio, hardwareOff>>
          ELSE IF deviceType = <<"motor">>
            THEN IF message \in {W_START, W_STOP}
                   THEN /\ controlPin("motor", message = W_START)
                        /\ pub' = Publish(statusTopic, "OK", <<>>, TRUE)
                   ELSE /\ pub' = Publish(statusTopic, "ERROR: Unknown motor command: ", message, TRUE)
                        /\ UNCHANGED <<gpio, hardwareOff>>
          ELSE IF deviceType \in {<<"light">>, <<"steam">>}
            THEN IF message \in {W_ON, W_OFF}
                   THEN /\ controlPin(deviceType[1], message = W_ON)
                        /\ pub' = Publish(statusTopic, "OK", <<>>, TRUE)
                   ELSE /\ pub' = Publish(statusTopic,
                                          IF deviceType = <<"light">>
                                            THEN "ERROR: Unknown light command: "
                                            ELSE "ERROR: Unknown steam command: ",
                                          message, TRUE)
                        /\ UNCHANGED <<gpio, hardwareOff>>
          ELSE /\ pub' = Publish(statusTopic, "ERROR: Unknown device: ", deviceType, TRUE)
               /\ UNCHANGED <<gpio, hardwareOff>>
  /\ UNCHANGED <<motor, ledc, enablePin, lastCmd, relay>>

(* What a successful client.connect(CLIENT_ID, willTopic, 0, true, "offline")
   leaves in sketch v: connected, the last-will registered. *)
Connected(c, v) ==
  [c EXCEPT !.client = TRUE, !.mqttConnected = TRUE,
            !.mqttAttempts = 0, !.mqttRetryInterval = MQTT_RETRY_INTERVAL(v),
            !.mqttFails = 0, !.event = "mqtt_ok",
            !.will = [topic |-> STATUS_TOPIC(v), payload |-> "offline", retained |-> TRUE]]

(* The callbacks are explored in the three sketches that subscribe to
   command topics, from the state the first successful connectToMqtt leaves;
   the connection can drop at any time. *)
InitDispatch ==
  /\ motor = [m \in Motors |-> MotorOff]
  /\ ledc = [m \in Motors |-> PinsOff]
  /\ enablePin = [m \in Motors |-> FALSE]
  /\ hardwareOff = TRUE
  /\ now = 0
  /\ lastCmd = [m \in Motors |-> NoCmd]
  /\ focus = 1
  /\ cmds = 0
  /\ variant \in {"MOTORS", "RELAY", "CTRL"}
  /\ relay = RelayOff
  /\ gpio = GpioOff
  /\ button = ButtonIdle
  /\ conn = Connected(Boot(variant, TRUE), variant)
  /\ pub = <<>>
  /\ msg = NoMsg

(* PubSubClient hands one inbound message to the callback *)
Inbound(topic, message) ==
  /\ cmds < MaxCmds
  /\ cmds' = cmds + 1
  /\ msg' = [topic |-> topic, payload |-> message, up |-> conn.client, depth |-> 1,
            offs |-> 0]
  /\ UNCHANGED <<now, focus, variant, conn, button>>

CallbackMotors(topic, message) ==
  Inbound(topic, message) /\ mqttCallback_MOTORS(topic, message)

(* two inbound messages: the second is handled inside the first's callback *)
CallbackMotorsNested(topic, message, topic2, message2) ==
  /\ cmds + 2 <= MaxCmds
  /\ cmds' = cmds + 2
  /\ msg' = [topic |-> topic2, payload |-> message2, up |-> conn.client, depth |-> 2,
            offs |-> 0]
  /\ mqttCallback_MOTORS_Nested(topic, message, topic2, message2)
  /\ UNCHANGED <<now, focus, variant, conn, button>>

CallbackRelay(topic, message, rnd) ==
  Inbound(topic, message) /\ mqttCallback_RELAY(topic, message, rnd)

CallbackCtrl(topic, message) ==
  Inbound(topic, message) /\ mqttCallback_CTRL(topic, message)

(* the RELAY main loop reaches handleEffects *)
HandleEffects(pick) ==
  /\ variant = "RELAY"
  /\ relay' = handleEffects(relay, now, pick)
  /\ UNCHANGED <<motor, ledc, enablePin, hardwareOff, now, lastCmd, focus, cmds,
                 variant, gpio, button, conn, pub, msg>>

(* the MOTORS main loop reaches updateMotorSmoothly *)
TickMotors(dt) == variant = "MOTORS" /\ Tick(dt)

(* time passes in the sketches without motor updates *)
Elapse(dt) ==
  /\ variant # "MOTORS"
  /\ now + dt <= MaxTicks * SMOOTH_DELAY
  /\ now' = now + dt
  /\ UNCHANGED <<motor, ledc, enablePin, hardwareOff, lastCmd, focus, cmds, sketchVars>>

(* the broker connection is lost: client.connected() turns false *)
BrokerDrop ==
  /\ conn.client
  /\ conn' = [conn EXCEPT !.client = FALSE, !.will = NoWill]
  /\ UNCHANGED <<motor, ledc, enablePin, hardwareOff, now, lastCmd, focus, cmds,
                 variant, relay, gpio, button, pub, msg>>

NextDispatch ==
  \/ \E i \in Inputs("MOTORS") : CallbackMotors(i[1], i[2])
  \/ \E i \in NestedFirst, j \in NestedSecond : CallbackMotorsNested(i[1], i[2], j[1], j[2])
  \/ \E i \in Inputs("RELAY"), rnd \in [1..2 -> RandomStart] : CallbackRelay(i[1], i[2], rnd)
  \/ \E i \in Inputs("CTRL") : CallbackCtrl(i[1], i[2])
  \/ \E dt \in TickDeltas : TickMotors(dt)
  \/ \E dt \in TickDeltas : Elapse(dt)
  \/ \E pick \in RandomPicks : HandleEffects(pick)
  \/ BrokerDrop

SpecDispatch == InitDispatch /\ [][NextDispatch]_vars

----------------------------------------------------------------------------
(* The MOTORS sketch where the motor in focus, whenever it stands still,
   may receive ON:<speed>:<direction> with speeds from all over the range,
   next to a few commands that may arrive at any time *)
MaxSpeed == 100

FocusTopic == IF focus = 1 THEN T_motor1 ELSE T_motor2

(* the speeds tried: the ends of the range, and speeds below, at and above
   one SMOOTH_STEP *)
RoundTripSpeeds == {1, 2, 7, 8, 9, 50, 99, MaxSpeed}

RoundTripOn == {OnSpeedDir(sp, d) : sp \in RoundTripSpeeds, d \in Dirs}

RoundTripInputs == {<<FocusTopic, W_OFF>>, <<T_STOP, W_ON>>}

CallbackMotorsOn(message) ==
  /\ motor[focus].currentSpeed = 0
  /\ CallbackMotors(FocusTopic, message)

InitRoundTrip ==
  /\ motor = [m \in Motors |-> MotorOff]
  /\ ledc = [m \in Motors |-> PinsOff]
  /\ enablePin = [m \in Motors |-> FALSE]
  /\ hardwareOff = TRUE
  /\ now = 0
  /\ lastCmd = [m \in Motors |-> NoCmd]
  /\ focus \in Motors
  /\ cmds = 0
  /\ variant = "MOTORS"
  /\ relay = RelayOff
  /\ gpio = GpioOff
  /\ button = ButtonIdle
  /\ conn = Connected(Boot(variant, TRUE), variant)
  /\ pub = <<>>
  /\ msg = NoMsg

NextRoundTrip ==
  \/ \E message \in RoundTripOn : CallbackMotorsOn(message)
  \/ \E i \in RoundTripInputs : CallbackMotors(i[1], i[2])
  \/ \E dt \in TickDeltas : TickMotors(dt)
  \/ BrokerDrop

SpecRoundTrip == InitRoundTrip /\ [][NextRoundTrip]_vars

----------------------------------------------------------------------------
(* The connectivity supervisor: reconnectWiFi, connectToMqtt, mqttLoop /
   publishStatus, monitorConnections of each sketch.  The clock of this
   exploration stops at MaxClock and moves in steps of WaitSteps; the time a
   handler blocks (delay, connection time-outs) passes in these steps. *)
MaxClock == 210000
WaitSteps == {30000}

ConnFrame == UNCHANGED <<motor, ledc, enablePin, lastCmd, focus, cmds, variant, gpio, button, msg>>

(* ESP.restart(): the sketch starts over; wifi is what setup's
   initializeWiFi reaches *)
Restart(wifi) ==
  /\ conn' = [Boot(variant, wifi) EXCEPT !.event = "restart"]
  /\ now' = 0
  /\ pub' = <<>>
  /\ relay' = RelayOff
  /\ hardwareOff' = TRUE

(* min(interval * 2, MAX_RETRY_INTERVAL), the step every reconnect loop takes
   after a failed attempt *)
Doubled_NoCap(interval) == interval * 2

Doubled(interval) == Min(interval * 2, MAX_RETRY_INTERVAL(variant))

(* reconnectWiFi (RELAY and esp32_mqtt_button wifi_manager.cpp); ok is the
   outcome of initializeWiFi *)
reconnectWiFi(ok) ==
  /\ variant \in {"RELAY", "BUTTON"}
  /\ ~conn.wifi
  /\ now - conn.lastWifiAttempt >= conn.wifiRetryInterval
  /\ LET wifiAttempts == conn.wifiAttempts + 1
     IN IF ok
          THEN /\ conn' = [conn EXCEPT !.wifi = TRUE, !.wifiConnected = TRUE,
                                       !.lastWifiAttempt = 0, !.wifiAttempts = 0,
                                       !.wifiRetryInterval = WIFI_RETRY_INTERVAL(variant),
                                       !.client = FALSE, !.will = NoWill,
                                       !.wifiFails = 0, !.event = "wifi_ok"]
               /\ UNCHANGED <<now, pub, relay, hardwareOff>>
        ELSE IF wifiAttempts >= MAX_WIFI_ATTEMPTS(variant)
          THEN \E wifi \in BOOLEAN : Restart(wifi)
        ELSE /\ conn' = [conn EXCEPT !.wifiConnected = FALSE,
                                     !.lastWifiAttempt = now, !.wifiAttempts = wifiAttempts,
                                     !.wifiRetryInterval = Doubled(conn.wifiRetryInterval),
                                     !.client = FALSE, !.will = NoWill,
                                     !.wifiFails = @ + 1, !.event = "wifi_fail"]
             /\ UNCHANGED <<now, pub, relay, hardwareOff>>
  /\ ConnFrame

(* variant of the guard: the WiFi test of the first line is missing *)
MqttAttemptDue_NoWifiTest ==
  /\ ~conn.client
  /\ now - conn.lastMqttAttempt >= conn.mqttRetryInterval

(* the guard all connectToMqtt share *)
MqttAttemptDue ==
  /\ conn.wifiConnected /\ conn.wifi
  /\ ~conn.client
  /\ now - conn.lastMqttAttempt >= conn.mqttRetryInterval

(* a failed attempt: counter and interval as each sketch leaves them *)
MqttFailed(c, attempts, interval) ==
  [c EXCEPT !.mqttAttempts = attempts, !.mqttRetryInterval = interval,
            !.lastMqttAttempt = now, !.mqttFails = @ + 1, !.event = "mqtt_fail"]

(* MOTORS connectToMqtt + publishStatusImmediate *)
connectToMqtt_MOTORS(ok) ==
  /\ variant = "MOTORS"
  /\ MqttAttemptDue
  /\ IF ok
       THEN /\ conn' = [Connected(conn, variant) EXCEPT !.lastMqttAttempt = now,
                                                        !.lastStatusPublish = now]
            /\ pub' = PublishIf(TRUE, STATUS_TOPIC(variant), "online", <<>>, FALSE)
            /\ UNCHANGED <<now, relay, hardwareOff>>
     ELSE IF conn.mqttAttempts + 1 >= MAX_MQTT_ATTEMPTS(variant)
       THEN \E wifi \in BOOLEAN : Restart(wifi)
     ELSE /\ conn' = [MqttFailed(conn, conn.mqttAttempts + 1, Doubled(conn.mqttRetryInterval))
                        EXCEPT !.mqttConnected = FALSE]
          /\ pub' = <<>>
          /\ UNCHANGED <<now, relay, hardwareOff>>
  /\ ConnFrame

(* RELAY connectToMqtt *)
connectToMqtt_RELAY(ok) ==
  /\ variant = "RELAY"
  /\ MqttAttemptDue
  /\ IF ok
       THEN /\ conn' = [Connected(conn, variant) EXCEPT !.lastMqttAttempt = now,
                                                        !.lastStatusPublish = now]
            /\ pub' = PublishIf(TRUE, STATUS_TOPIC(variant), "online", <<>>, TRUE)
            /\ relay' = [relay EXCEPT !.lastCommandTime = now]
            /\ UNCHANGED <<now, hardwareOff>>
     ELSE IF conn.mqttAttempts + 1 >= MAX_MQTT_ATTEMPTS(variant)
       THEN \E wifi \in BOOLEAN : Restart(wifi)
     ELSE /\ conn' = MqttFailed(conn, conn.mqttAttempts + 1, Doubled(conn.mqttRetryInterval))
          /\ pub' = <<>>
          /\ UNCHANGED <<now, relay, hardwareOff>>
  /\ ConnFrame

(* esp32_mqtt_controller connectToMqtt: the counter is raised before the
   attempt, the interval is doubled before the restart test *)
connectToMqtt_CTRL(ok) ==
  /\ variant = "CTRL"
  /\ MqttAttemptDue
  /\ IF ok
       THEN /\ conn' = [Connected(conn, variant) EXCEPT !.lastMqttAttempt = now,
                                                        !.lastStatusPublish = now]
            /\ pub' = PublishIf(TRUE, STATUS_TOPIC(variant), "online", <<>>, TRUE)
            /\ hardwareOff' = FALSE
            /\ UNCHANGED <<now, relay>>
     ELSE IF conn.mqttAttempts + 1 >= MAX_MQTT_ATTEMPTS(variant)
       THEN \E wifi \in BOOLEAN : Restart(wifi)
     ELSE /\ conn' = [MqttFailed(conn, conn.mqttAttempts + 1, Doubled(conn.mqttRetryInterval))
                        EXCEPT !.mqttConnected = FALSE]
          /\ pub' = <<>>
          /\ UNCHANGED <<now, relay, hardwareOff>>
  /\ ConnFrame

(* esp32_mqtt_button connectToMqtt: no attempt counter, no restart *)
connectToMqtt_BUTTON(ok) ==
  /\ variant = "BUTTON"
  /\ MqttAttemptDue
  /\ IF ok
       THEN /\ conn' = [Connected(conn, variant) EXCEPT !.lastMqttAttempt = now]
            /\ pub' = PublishIf(TRUE, STATUS_TOPIC(variant), "online", <<>>, TRUE)
     ELSE /\ conn' = MqttFailed(conn, conn.mqttAttempts, Doubled(conn.mqttRetryInterval))
          /\ pub' = <<>>
  /\ UNCHANGED <<now, relay, hardwareOff>>
  /\ ConnFrame

Online(retained) == PublishIf(TRUE, STATUS_TOPIC(variant), "online", <<>>, retained)

StatusDue(last) == now - last >= STATUS_PUBLISH_INTERVAL(variant)

(* MOTORS mqttLoop -> publishStatus -> publishStatusImmediate *)
mqttLoop_MOTORS ==
  /\ variant = "MOTORS"
  /\ IF ~conn.client
       THEN conn' = [conn EXCEPT !.mqttConnected = FALSE] /\ pub' = <<>>
     ELSE IF ~StatusDue(conn.lastStatusTime)
       THEN conn' = conn /\ pub' = <<>>
     ELSE IF StatusDue(conn.lastStatusPublish)
       THEN /\ conn' = [conn EXCEPT !.lastStatusTime = now, !.lastStatusPublish = now,
                                    !.event = "status"]
            /\ pub' = Online(FALSE)
     ELSE conn' = [conn EXCEPT !.lastStatusTime = now] /\ pub' = <<>>
  /\ UNCHANGED <<now, relay, hardwareOff>>
  /\ ConnFrame

(* RELAY mqttLoop -> publishStatus *)
mqttLoop_RELAY ==
  /\ variant = "RELAY"
  /\ IF ~conn.wifiConnected \/ ~StatusDue(conn.lastStatusTime)
       THEN conn' = conn /\ pub' = <<>>
     ELSE IF conn.mqttConnected /\ conn.client /\ StatusDue(conn.lastStatusPublish)
       THEN /\ conn' = [conn EXCEPT !.lastStatusTime = now, !.lastStatusPublish = now,
                                    !.event = "status"]
            /\ pub' = Online(TRUE)
     ELSE conn' = [conn EXCEPT !.lastStatusTime = now] /\ pub' = <<>>
  /\ UNCHANGED <<now, relay, hardwareOff>>
  /\ ConnFrame

(* esp32_mqtt_controller mqttLoop -> publishStatus *)
mqttLoop_CTRL ==
  /\ variant = "CTRL"
  /\ IF conn.mqttConnected /\ conn.client /\ StatusDue(conn.lastStatusPublish)
       THEN /\ conn' = [conn EXCEPT !.lastStatusPublish = now, !.event = "status"]
            /\ pub' = Online(TRUE)
       ELSE conn' = conn /\ pub' = <<>>
  /\ UNCHANGED <<now, relay, hardwareOff>>
  /\ ConnFrame

(* esp32_mqtt_button mqttLoop *)
mqttLoop_BUTTON ==
  /\ variant = "BUTTON"
  /\ IF ~conn.wifiConnected \/ ~StatusDue(conn.lastStatusPublish)
       THEN conn' = conn /\ pub' = <<>>
     ELSE IF conn.mqttConnected /\ conn.client
       THEN /\ conn' = [conn EXCEPT !.lastStatusPublish = now, !.event = "status"]
            /\ pub' = Online(TRUE)
     ELSE conn' = [conn EXCEPT !.lastStatusPublish = now] /\ pub' = <<>>
  /\ UNCHANGED <<now, relay, hardwareOff>>
  /\ ConnFrame

(* monitorConnections (MOTORS and RELAY connection_monitor.cpp) *)
monitorConnections ==
  /\ variant \in {"MOTORS", "RELAY"}
  /\ now - conn.lastConnectionCheck >= CONNECTION_CHECK_INTERVAL(variant)
  /\ conn' = IF ~conn.wifi /\ conn.wifiConnected
               THEN [conn EXCEPT !.lastConnectionCheck = now,
                                 !.wifiConnected = FALSE, !.mqttConnected = FALSE]
             ELSE IF conn.wifi /\ ~conn.wifiConnected
               THEN [conn EXCEPT !.lastConnectionCheck = now, !.wifiConnected = TRUE]
             ELSE [conn EXCEPT !.lastConnectionCheck = now]
  /\ UNCHANGED <<now, pub, relay, hardwareOff>>
  /\ ConnFrame

(* the access point goes away / the station re-associates by itself *)
WifiDrop ==
  /\ conn.wifi
  /\ conn' = [conn EXCEPT !.wifi = FALSE]
  /\ UNCHANGED <<now, pub, relay, hardwareOff>>
  /\ ConnFrame

WifiBack ==
  /\ ~conn.wifi
  /\ conn' = [conn EXCEPT !.wifi = TRUE]
  /\ UNCHANGED <<now, pub, relay, hardwareOff>>
  /\ ConnFrame

(* time passes *)
Wait(dt) ==
  /\ now + dt <= MaxClock
  /\ now' = now + dt
  /\ UNCHANGED <<conn, pub, relay, hardwareOff>>
  /\ ConnFrame

InitConn ==
  /\ motor = [m \in Motors |-> MotorOff]
  /\ ledc = [m \in Motors |-> PinsOff]
  /\ enablePin = [m \in Motors |-> FALSE]
  /\ hardwareOff = TRUE
  /\ now = 0
  /\ lastCmd = [m \in Motors |-> NoCmd]
  /\ focus = 1
  /\ cmds = 0
  /\ variant \in Variants
  /\ relay = RelayOff
  /\ gpio = GpioOff
  /\ button = ButtonIdle
  /\ \E wifi \in BOOLEAN : conn = Boot(variant, wifi)
  /\ pub = <<>>
  /\ msg = NoMsg

NextConn ==
  \/ \E ok \in BOOLEAN : reconnectWiFi(ok)
  \/ \E ok \in BOOLEAN : connectToMqtt_MOTORS(ok)
  \/ \E ok \in BOOLEAN : connectToMqtt_RELAY(ok)
  \/ \E ok \in BOOLEAN : connectToMqtt_CTRL(ok)
  \/ \E ok \in BOOLEAN : connectToMqtt_BUTTON(ok)
  \/ mqttLoop_MOTORS
  \/ mqttLoop_RELAY
  \/ mqttLoop_CTRL
  \/ mqttLoop_BUTTON
  \/ monitorConnections
  \/ WifiDrop
  \/ WifiBack
  \/ BrokerDrop
  \/ \E dt \in WaitSteps : Wait(dt)

SpecConn == InitConn /\ [][NextConn]_vars

----------------------------------------------------------------------------
(* The run loop with its safety monitor, MOTORS and RELAY.  The sketch
   files that hold loop() are not part of the sources; the pass is put
   together as the specification describes it: the actuators are advanced
   (updateMotorSmoothly, handleEffects), then the safety monitor forces
   everything off when the connection is seen lost or, RELAY, when no
   command has come for NO_COMMAND_TIMEOUT. *)
NO_COMMAND_TIMEOUT == 180000

(* the passes explored are IdleStep apart, half the inactivity timeout *)
IdleStep == NO_COMMAND_TIMEOUT \div 2
PassSteps == {IdleStep}

PassDue(dt) == now + dt <= MaxTicks * IdleStep

(* isMqttConnected() *)
isMqttConnected == conn.mqttConnected /\ conn.client

(* the safety monitor sees the WiFi link or the broker connection lost *)
ConnectionLost == ~conn.wifiConnected \/ ~isMqttConnected

(* the safety monitor sees the inactivity timeout expired with devices
   still on *)
IdleTooLong(r, t) == t - r.lastCommandTime > NO_COMMAND_TIMEOUT /\ ~r.allDevicesOff

LoopPass_MOTORS(dt) ==
  /\ variant = "MOTORS"
  /\ PassDue(dt)
  /\ now' = now + dt
  /\ IF ConnectionLost
       THEN turnOffHardware
       ELSE updateMotorSmoothly(now') /\ UNCHANGED <<enablePin, hardwareOff>>
  /\ UNCHANGED <<lastCmd, focus, cmds, sketchVars>>

LoopPass_RELAY(dt, pick) ==
  /\ variant = "RELAY"
  /\ PassDue(dt)
  /\ now' = now + dt
  /\ LET h == handleEffects(relay, now', pick)
         fires == ~ConnectionLost /\ IdleTooLong(h, now')
     IN /\ relay' = IF ConnectionLost \/ fires THEN turnOffAllDevices(h) ELSE h
        /\ msg' = IF fires THEN [msg EXCEPT !.offs = @ + 1] ELSE msg
  /\ UNCHANGED <<motor, ledc, enablePin, hardwareOff, lastCmd, focus, cmds,
                 variant, gpio, button, conn, pub>>

(* client.loop() delivers a message: the broker connection is open and
   mqttLoop reaches client.loop() *)
Delivered == conn.client /\ (variant = "RELAY" => conn.wifiConnected)

SafetyInputs(v) ==
  IF v = "MOTORS"
    THEN {<<T_motor1, OnSpeedDir(5, "R")>>, <<T_motor2, OnSpeedDir(110, "L")>>,
          <<T_STOP, W_ON>>}
    ELSE {<<T_light1, W_ON>>, <<T_light1, W_OFF>>, <<T_alone, W_ON>>, <<T_STOP, W_ON>>}

InitSafety ==
  /\ motor = [m \in Motors |-> MotorOff]
  /\ ledc = [m \in Motors |-> PinsOff]
  /\ enablePin = [m \in Motors |-> FALSE]
  /\ hardwareOff = TRUE
  /\ now = 0
  /\ lastCmd = [m \in Motors |-> NoCmd]
  /\ focus = 1
  /\ cmds = 0
  /\ variant \in {"MOTORS", "RELAY"}
  /\ relay = RelayOff
  /\ gpio = GpioOff
  /\ button = ButtonIdle
  /\ conn = Connected(Boot(variant, TRUE), variant)
  /\ pub = <<>>
  /\ msg = NoMsg

NextSafety ==
  \/ \E i \in SafetyInputs("MOTORS") : Delivered /\ CallbackMotors(i[1], i[2])
  \/ \E i \in SafetyInputs("RELAY"), rnd \in [1..2 -> RandomStart] :
        Delivered /\ CallbackRelay(i[1], i[2], rnd)
  \/ \E dt \in PassSteps : LoopPass_MOTORS(dt)
  \/ \E dt \in PassSteps, pick \in RandomPicks : LoopPass_RELAY(dt, pick)
  \/ monitorConnections
  \/ connectToMqtt_MOTORS(TRUE)
  \/ connectToMqtt_RELAY(TRUE)
  \/ WifiDrop
  \/ WifiBack
  \/ BrokerDrop

SpecSafety == InitSafety /\ [][NextSafety]_vars

----------------------------------------------------------------------------
(* RELAY hardware.cpp on its own: after initializeHardware, setDevice is
   called with any index (one below and one above the configured range
   included) and any state, and turnOffAllDevices is called, in any order,
   at most MaxCalls times in a run. *)
MaxCalls == 5
CallIndices == (-1)..DEVICE_COUNT

HardwareFrame ==
  UNCHANGED <<motor, ledc, enablePin, hardwareOff, now, lastCmd, focus,
              variant, gpio, button, conn, pub, msg>>

SetDevice(i, state) ==
  /\ cmds < MaxCalls
  /\ cmds' = cmds + 1
  /\ relay' = setDevice(relay, i, state)
  /\ HardwareFrame

TurnOffAllDevices ==
  /\ cmds < MaxCalls
  /\ cmds' = cmds + 1
  /\ relay' = turnOffAllDevices(relay)
  /\ HardwareFrame

InitHardware ==
  /\ motor = [m \in Motors |-> MotorOff]
  /\ ledc = [m \in Motors |-> PinsOff]
  /\ enablePin = [m \in Motors |-> FALSE]
  /\ hardwareOff = TRUE
  /\ now = 0
  /\ lastCmd = [m \in Motors |-> NoCmd]
  /\ focus = 1
  /\ cmds = 0
  /\ variant = "RELAY"
  /\ relay = RelayOff
  /\ gpio = GpioOff
  /\ button = ButtonIdle
  /\ conn = Boot("RELAY", TRUE)
  /\ pub = <<>>
  /\ msg = NoMsg

NextHardware ==
  \/ \E i \in CallIndices, state \in BOOLEAN : SetDevice(i, state)
  \/ TurnOffAllDevices

SpecHardware == InitHardware /\ [][NextHardware]_vars

----------------------------------------------------------------------------
(* RELAY effects_manager.cpp on its own: after initializeEffects,
   startEffect and stopEffect are called with the names of both groups and
   of a group that does not exist, at most MaxCalls times in a run, while
   the main loop calls handleEffects and the clock advances in steps of
   100 ms up to MaxEffectClock (long enough for group1 to switch on,
   off and on again). *)
EffectSteps == {100}
MaxEffectClock == 600
EffectNames == {"group1", "alone", "nogroup"}

EffectsFrame ==
  UNCHANGED <<motor, ledc, enablePin, hardwareOff, lastCmd, focus,
              variant, gpio, button, conn, pub, msg>>

StartEffect(groupName, rnd) ==
  /\ cmds < MaxCalls
  /\ cmds' = cmds + 1
  /\ relay' = startEffect(relay, groupName, now, rnd)
  /\ now' = now
  /\ EffectsFrame

StopEffect(groupName) ==
  /\ cmds < MaxCalls
  /\ cmds' = cmds + 1
  /\ relay' = stopEffect(relay, groupName)
  /\ now' = now
  /\ EffectsFrame

EffectsElapse(dt) ==
  /\ now + dt <= MaxEffectClock
  /\ now' = now + dt
  /\ UNCHANGED <<relay, cmds>>
  /\ EffectsFrame

NextEffects ==
  \/ \E groupName \in EffectNames, rnd \in [1..2 -> RandomStart] : StartEffect(groupName, rnd)
  \/ \E groupName \in EffectNames : StopEffect(groupName)
  \/ \E pick \in RandomPicks : HandleEffects(pick)
  \/ \E dt \in EffectSteps : EffectsElapse(dt)

SpecEffects == InitHardware /\ [][NextEffects]_vars

----------------------------------------------------------------------------
(* esp32_mqtt_button hardware.cpp: the main loop calls wasButtonPressed at
   times of its own; each call samples the pin.  The calls explored are
   30 ms (inside the debounce window), 61 ms (just beyond it) or a whole
   cooldown after the previous one, at most MaxPolls calls up to the time
   MaxButtonClock, which leaves room for two valid presses, for a press
   rejected by the cooldown and for a button held down until the cooldown
   has expired. *)
DEBOUNCE_DELAY == 60
BUTTON_COOLDOWN == 4000
MaxButtonClock == 8300
MaxPolls == 8
PollSteps == {30, 61, BUTTON_COOLDOWN}
Levels == {"HIGH", "LOW"}

(* variant of wasButtonPressed without the cooldown filter *)
wasButtonPressed_NoCooldown(b, reading, currentTime) ==
  LET lastDebounceTime == IF reading # b.lastButtonState THEN currentTime
                                                         ELSE b.lastDebounceTime
      changed == (currentTime - lastDebounceTime) > DEBOUNCE_DELAY
                   /\ reading # b.currentButtonState
      verifiedPress == changed /\ reading = "LOW"
  IN [b EXCEPT !.lastDebounceTime = lastDebounceTime,
               !.currentButtonState = IF changed THEN reading ELSE @,
               !.lastValidPressTime = IF verifiedPress THEN currentTime ELSE @,
               !.lastButtonState = reading,
               !.ret = verifiedPress]

(* variant of wasButtonPressed that takes over the debounced LOW only when
   it reports the press *)
wasButtonPressed_PressKept(b, reading, currentTime) ==
  LET lastDebounceTime == IF reading # b.lastButtonState THEN currentTime
                                                         ELSE b.lastDebounceTime
      changed == (currentTime - lastDebounceTime) > DEBOUNCE_DELAY
                   /\ reading # b.currentButtonState
      verifiedPress == changed /\ reading = "LOW"
                         /\ currentTime - b.lastValidPressTime >= BUTTON_COOLDOWN
  IN [b EXCEPT !.lastDebounceTime = lastDebounceTime,
               !.currentButtonState =
                  IF changed /\ (reading = "HIGH" \/ verifiedPress) THEN reading ELSE @,
               !.lastValidPressTime = IF verifiedPress THEN currentTime ELSE @,
               !.lastButtonState = reading,
               !.ret = verifiedPress]

(* wasButtonPressed at time currentTime with digitalRead(BUTTON_PIN) =
   reading: the statics after the call, ret the value returned *)
wasButtonPressed(b, reading, currentTime) ==
  LET lastDebounceTime == IF reading # b.lastButtonState THEN currentTime
                                                         ELSE b.lastDebounceTime
      changed == (currentTime - lastDebounceTime) > DEBOUNCE_DELAY
                   /\ reading # b.currentButtonState
      verifiedPress == changed /\ reading = "LOW"
                         /\ currentTime - b.lastValidPressTime >= BUTTON_COOLDOWN
  IN [b EXCEPT !.lastDebounceTime = lastDebounceTime,
               !.currentButtonState = IF changed THEN reading ELSE @,
               !.lastValidPressTime = IF verifiedPress THEN currentTime ELSE @,
               !.lastButtonState = reading,
               !.ret = verifiedPress]

(* the history of the samples and of the values returned *)
Sampled(b, reading, currentTime) ==
  LET lowSince == IF reading = "HIGH" THEN -1
                  ELSE IF button.lowSince = -1 THEN currentTime
                  ELSE button.lowSince
  IN [b EXCEPT !.lowSince = lowSince,
               !.lowSettled = reading = "LOW"
                                /\ \/ button.lowSettled
                                   \/ currentTime - lowSince > DEBOUNCE_DELAY,
               !.lastTrue = IF b.ret THEN currentTime ELSE button.lastTrue,
               !.trues = IF b.ret THEN button.trues + 1 ELSE button.trues]

ButtonPoll(reading, dt) ==
  /\ variant = "BUTTON"
  /\ now + dt <= MaxButtonClock
  /\ cmds < MaxPolls
  /\ cmds' = cmds + 1
  /\ now' = now + dt
  /\ button' = Sampled(wasButtonPressed(button, reading, now'), reading, now')
  /\ UNCHANGED <<motor, ledc, enablePin, hardwareOff, lastCmd, focus,
                 variant, relay, gpio, conn, pub, msg>>

InitButton ==
  /\ motor = [m \in Motors |-> MotorOff]
  /\ ledc = [m \in Motors |-> PinsOff]
  /\ enablePin = [m \in Motors |-> FALSE]
  /\ hardwareOff = TRUE
  /\ now = 0
  /\ lastCmd = [m \in Motors |-> NoCmd]
  /\ focus = 1
  /\ cmds = 0
  /\ variant = "BUTTON"
  /\ relay = RelayOff
  /\ gpio = GpioOff
  /\ button = ButtonIdle
  /\ conn = Boot("BUTTON", TRUE)
  /\ pub = <<>>
  /\ msg = NoMsg

NextButton == \E reading \in Levels, dt \in PollSteps : ButtonPoll(reading, dt)

SpecButton == InitButton /\ [][NextButton]_vars

----------------------------------------------------------------------------
(* Vocabulary of the properties *)
IsTick == now' # now

AllOff(m) ==
  /\ motor[m].currentSpeed = 0
  /\ motor[m].targetSpeed = 0
  /\ ~motor[m].enabled
  /\ ledc[m] = PinsOff
  /\ ~enablePin[m]

Between(a, x, b) == Min(a, b) <= x /\ x <= Max(a, b)

(* the duties that render a motor state *)
Render(ms) ==
  IF ms.currentSpeed = 0 THEN PinsOff
  ELSE IF ms.direction = "L"
    THEN [L |-> Max(0, Min(255, TruncDiv(ms.currentSpeed * 255, 100))), R |-> 0]
  ELSE IF ms.direction = "R"
    THEN [L |-> 0, R |-> Max(0, Min(255, TruncDiv(ms.currentSpeed * 255, 100)))]
  ELSE PinsOff

(* motor 2's block is not reached while motor 1's block returns early *)
Skipped(m) ==
  /\ m = 2
  /\ motor[1].rampActive
  /\ now' < motor[1].rampStartTime + motor[1].rampDurationMs

(* the last command of motor m was a DIR that an enabled, moving motor
   received for a direction other than its own *)
Deferred(m) ==
  /\ lastCmd[m].name = "DIR"
  /\ motor[m].enabled
  /\ lastCmd[m].moving
  /\ lastCmd[m].from # lastCmd[m].dir

----------------------------------------------------------------------------
(* C1: a step that changes a motor's direction starts from currentSpeed = 0,
   or is the STOP hard reset.  Stated as in the specification; the ON branch
   of controlMotor1/2 assigns direction at any speed. *)
C1_DirectionChangesOnlyAtZero ==
  [][\A m \in Motors :
       motor'[m].direction # motor[m].direction
         => (motor[m].currentSpeed = 0 \/ CmdStop)]_vars

(* C2: once STOP has been handled, every motor is all-off at once:
   currentSpeed 0, targetSpeed 0, disabled, both duties 0, enable line LOW,
   whatever the motors were doing. *)
C2_StopIsHardStop ==
  \A m \in Motors : lastCmd[m].name = "STOP" => AllOff(m)

C2_Witness ==
  \E m \in Motors :
    /\ lastCmd[m].name = "STOP"
    /\ lastCmd[m].moving
    /\ lastCmd[m].pending
    /\ AllOff(m)

(* C3, as stated: with no timed ramp active an update moves currentSpeed by
   at most SMOOTH_STEP toward targetSpeed, not past it, and changes nothing
   when currentSpeed = targetSpeed. *)
C3_Original ==
  [][\A m \in Motors :
       (IsTick /\ ~motor[m].rampActive) =>
          /\ Between(motor[m].currentSpeed, motor'[m].currentSpeed, motor[m].targetSpeed)
          /\ motor'[m].currentSpeed - motor[m].currentSpeed <= SMOOTH_STEP
          /\ motor[m].currentSpeed - motor'[m].currentSpeed <= SMOOTH_STEP
          /\ motor[m].currentSpeed = motor[m].targetSpeed
               => (motor'[m] = motor[m] /\ ledc'[m] = ledc[m])]_vars

(* C3, amended: with no timed ramp active an update moves currentSpeed by at
   most SMOOTH_STEP toward the target in force after the update's
   direction-change step (savedSpeed when a pending direction change is
   applied at currentSpeed = 0, targetSpeed otherwise), not past it, and
   changes nothing when currentSpeed equals the target and no pending
   direction change is applied. *)
C3_SlewBounded ==
  [][\A m \in Motors :
       (IsTick /\ ~motor[m].rampActive) =>
          LET due == motor[m].pendingDirectionChange /\ motor[m].currentSpeed = 0
              tgt == IF due THEN motor[m].savedSpeed ELSE motor[m].targetSpeed
          IN /\ Between(motor[m].currentSpeed, motor'[m].currentSpeed, tgt)
             /\ motor'[m].currentSpeed - motor[m].currentSpeed <= SMOOTH_STEP
             /\ motor[m].currentSpeed - motor'[m].currentSpeed <= SMOOTH_STEP
             /\ (motor[m].currentSpeed = tgt /\ ~due)
                  => (motor'[m] = motor[m] /\ ledc'[m] = ledc[m])]_vars

C3_Witness ==
  \E m \in Motors :
    /\ Deferred(m)
    /\ ~motor[m].rampActive
    /\ ~motor[m].pendingDirectionChange
    /\ motor[m].direction = lastCmd[m].dir
    /\ motor[m].currentSpeed = motor[m].targetSpeed
    /\ motor[m].currentSpeed % SMOOTH_STEP # 0
    /\ motor[m].lastUpdate = now

(* C4: DIR on an enabled moving motor defers the flip: while the reversal is
   pending the direction is the old one, the target is 0 and the speed only
   falls; the direction becomes the requested one in an update that starts
   at currentSpeed = 0; afterwards the target is the requested speed and the
   speed only rises, up to that speed.  Every update that reaches the motor
   makes progress.  DIR on an enabled stopped motor applies at once. *)
C4_DirDefersFlip ==
  [][\A m \in Motors :
       /\ Deferred(m)' =>
            IF motor'[m].pendingDirectionChange
              THEN /\ motor'[m].direction = lastCmd'[m].from
                   /\ motor'[m].newDirection = lastCmd'[m].dir
                   /\ motor'[m].targetSpeed = 0
                   /\ motor'[m].savedSpeed = motor'[m].speed
              ELSE /\ motor'[m].direction = lastCmd'[m].dir
                   /\ motor'[m].targetSpeed = motor'[m].speed
                   /\ Between(0, motor'[m].currentSpeed, motor'[m].speed)
       /\ (Deferred(m) /\ IsTick) =>
            /\ motor'[m].direction # motor[m].direction => motor[m].currentSpeed = 0
            /\ motor[m].pendingDirectionChange =>
                 IF motor[m].currentSpeed > 0
                   THEN /\ motor'[m].currentSpeed <= motor[m].currentSpeed
                        /\ motor'[m].pendingDirectionChange
                        /\ ~Skipped(m) => motor'[m].currentSpeed < motor[m].currentSpeed
                   ELSE ~Skipped(m) => /\ ~motor'[m].pendingDirectionChange
                                       /\ motor'[m].direction = lastCmd[m].dir
            /\ ~motor[m].pendingDirectionChange =>
                 /\ motor'[m].currentSpeed >= motor[m].currentSpeed
                 /\ (~Skipped(m) /\ motor[m].currentSpeed < motor[m].speed)
                      => motor'[m].currentSpeed > motor[m].currentSpeed
       /\ \A d \in Dirs :
            (CmdDir(m, d) /\ motor[m].enabled /\ motor[m].currentSpeed = 0)
              => motor'[m].direction = d]_vars

C4_Witness ==
  \E m \in Motors :
    /\ Deferred(m)
    /\ ~motor[m].pendingDirectionChange
    /\ motor[m].direction = lastCmd[m].dir
    /\ motor[m].currentSpeed = motor[m].speed
    /\ motor[m].speed > 0

(* C5: ON for the direction opposite to the one a motor is running in puts
   the motor into a pending reversal and starts no timed ramp.  Stated as in
   the specification; the ON branch has no such case. *)
C5_OnOppositeDefers ==
  [][\A m \in Motors, s \in Speeds, d \in Dirs, r \in Ramps :
       (CmdOn(m, s, d, r) /\ motor[m].currentSpeed > 0
          /\ motor[m].direction \in Dirs /\ motor[m].direction # d)
         => /\ motor'[m].pendingDirectionChange
            /\ motor'[m].targetSpeed = 0
            /\ motor'[m].direction = motor[m].direction
            /\ ~motor'[m].rampActive]_vars

(* C6: currentSpeed and targetSpeed stay within 0..100.  Stated as in the
   specification; no handler range-checks its speed argument. *)
C6_SpeedInRange ==
  \A m \in Motors :
    /\ motor[m].currentSpeed \in 0..100
    /\ motor[m].targetSpeed \in 0..100

(* C7: while a timed ramp is active, currentSpeed lies between the ramp's
   start speed and its target speed.  Stated as in the specification; the
   interpolation of a decelerating ramp is done in unsigned arithmetic. *)
C7_RampBetweenStartAndTarget ==
  \A m \in Motors :
    motor[m].rampActive
      => Between(motor[m].rampStartSpeed, motor[m].currentSpeed, motor[m].targetSpeed)

(* C8: after every handler and update the duties last written for a motor
   are the rendering of its currentSpeed and direction.  Stated as in the
   specification; several paths change the state without updateMotorPWM. *)
C8_OutputRendersState ==
  \A m \in Motors : ledc[m] = Render(motor[m])

(* C9: after SPEED(s) is accepted and no further command arrives, the target
   stays s, so nothing of a superseded reversal overrides it.  Stated as in
   the specification; SPEED leaves pendingDirectionChange set. *)
C9_SpeedIsLastWriter ==
  \A m \in Motors :
    (lastCmd[m].name = "SPEED" /\ motor[m].enabled)
      => motor[m].targetSpeed = motor[m].speed

(* C10: a DIR that arrives while the motor is still moving toward a pending
   reversal overwrites the pending request: once the reversal has been
   applied the direction is the one of that most recent DIR.  Stated as in
   the specification; DIR for the current direction returns early and leaves
   the pending request in place. *)
C10_SecondDirOverwrites ==
  \A m \in Motors :
    (/\ lastCmd[m].name = "DIR"
     /\ motor[m].enabled
     /\ lastCmd[m].moving
     /\ lastCmd[m].pending
     /\ ~motor[m].pendingDirectionChange)
      => motor[m].direction = lastCmd[m].dir


(* C11: once OFF is the last command a motor handled, no timed ramp is active
   on it, its target is 0 and no reversal is pending; from then on every
   update leaves its direction alone and never raises currentSpeed, and an
   update that changes currentSpeed lowers it by SMOOTH_STEP or, from a speed
   of at most SMOOTH_STEP, to 0 -- so 0 is reached within
   ceil(currentSpeed / SMOOTH_STEP) speed-changing updates.  An update that
   reaches the motor above speed 0 is speed-changing. *)
C11_OffDescendsToZero ==
  [][\A m \in Motors :
       /\ (lastCmd[m].name = "OFF")' =>
            /\ ~motor'[m].rampActive
            /\ ~motor'[m].pendingDirectionChange
            /\ motor'[m].targetSpeed = 0
            /\ ~motor'[m].enabled
       /\ (lastCmd[m].name = "OFF" /\ IsTick) =>
            /\ motor'[m].direction = motor[m].direction
            /\ motor'[m].currentSpeed <= motor[m].currentSpeed
            /\ motor'[m].currentSpeed # motor[m].currentSpeed
                 => motor'[m].currentSpeed = Max(motor[m].currentSpeed - SMOOTH_STEP, 0)
            /\ (~Skipped(m) /\ motor[m].currentSpeed > 0)
                 => motor'[m].currentSpeed < motor[m].currentSpeed]_vars

C11_Witness ==
  \E m \in Motors :
    /\ lastCmd[m].name = "OFF"
    /\ lastCmd[m].moving
    /\ lastCmd[m].ramping
    /\ motor[m].currentSpeed = 0
    /\ motor[m].direction = lastCmd[m].from
    /\ motor[m].lastUpdate = now
    /\ now > 0


----------------------------------------------------------------------------
(* Vocabulary of the callback properties *)
IsCallback == cmds' = cmds + 1

MotorTopic(m) == IF m = 1 THEN T_motor1 ELSE T_motor2

(* the callback has just handled message on motor m's command topic *)
Handled(m, message) ==
  /\ IsCallback
  /\ msg'.topic = MotorTopic(m)
  /\ msg'.payload = message

(* C12: ON:<speed>:<dir>:<rampMs> with rampMs > 0, handled by the callback
   for a stopped motor, starts a timed ramp: rampActive, rampDurationMs =
   rampMs, direction = dir, targetSpeed = speed; ON alone takes speed 50,
   direction L and no ramp.  Stated as in the specification; the callback
   never hands a ramp time to controlMotor1/2. *)
C12_OnWithRampStartsRamp ==
  [][\A m \in Motors :
       /\ \A s \in Speeds, d \in Dirs, r \in Ramps \ {0} :
            (Handled(m, OnSpeedDirRamp(s, d, r)) /\ motor[m].currentSpeed = 0)
              => /\ motor'[m].rampActive
                 /\ motor'[m].rampDurationMs = r
                 /\ motor'[m].direction = d
                 /\ motor'[m].targetSpeed = s
       /\ Handled(m, W_ON)
            => /\ motor'[m].targetSpeed = 50
               /\ motor'[m].direction = "L"
               /\ ~motor'[m].rampActive]_vars


(* feedback texts that report an error *)
ErrorTexts ==
  { "ERROR", "ERROR_UNKNOWN_COMMAND", "ERROR_UNKNOWN_DEVICE", "ERROR_UNKNOWN_TOPIC",
    "ERROR: Unknown topic prefix: ", "ERROR: Unknown device: ",
    "ERROR: Unknown motor command: ", "ERROR: Unknown light command: ",
    "ERROR: Unknown steam command: " }

(* payloads outside the grammar: unknown verb, non-numeric speed, speed above
   100, direction other than L or R *)
MalformedPayloads ==
  { W_BLINK, OnSpeedDir(110, "L"), OnSpeedDir(5, "X"),
    W_ON \o Colon \o <<"x">> \o Colon \o W_L,
    W_SPEED \o Colon \o <<"x">>, DirPayload("X") }

UnknownDeviceTopics == { <<"room1", "lamp">> }

ActuatorsUnchanged ==
  /\ motor' = motor
  /\ ledc' = ledc
  /\ enablePin' = enablePin
  /\ gpio' = gpio
  /\ relay'.deviceStates = relay.deviceStates
  /\ relay'.expanderState = relay.expanderState
  /\ relay'.groupActive = relay.groupActive
  /\ relay'.activeGroupIndex = relay.activeGroupIndex

(* C13: a message with an unknown verb, an unknown device or malformed
   parameters, handled while the broker connection is up, gets a feedback
   that reports an error and changes no actuator state or output; the device
   is not restarted.  Stated as in the specification; the MOTORS callback
   checks neither speed nor direction. *)
C13_MalformedIsRejected ==
  [][(/\ IsCallback
      /\ msg'.up
      /\ msg'.payload \in MalformedPayloads \/ msg'.topic \in UnknownDeviceTopics)
       => /\ Len(pub') >= 1
          /\ \A i \in 1..Len(pub') : pub'[i].text \in ErrorTexts
          /\ ActuatorsUnchanged
          /\ conn' = conn]_vars


(* topics the specification calls ignored: last level feedback or status *)
IgnoredTopic(topic) == endsWithLevel(topic, "feedback") \/ endsWithLevel(topic, "status")

(* C14: for the message handled last, if its topic is not an ignored one and
   the broker connection was up, the callback made exactly one publish.
   Stated as in the specification; the RELAY callback has paths without a
   publish. *)
C14_ExactlyOneFeedback ==
  (msg # NoMsg /\ msg.up /\ ~IgnoredTopic(msg.topic)) => Len(pub) = 1


(* C15: SPEED or DIR handled for a motor whose enabled flag is false changes
   nothing in the motors' state or outputs, and the feedback published for
   it is not the plain OK.  Stated as in the specification; the callback
   answers OK whatever controlMotor1/2 did. *)
C15_DisabledSpeedDirIgnored ==
  [][\A m \in Motors :
       (/\ \E message \in {SpeedPayload(5), DirPayload("R")} : Handled(m, message)
        /\ msg'.up
        /\ ~motor[m].enabled)
         => /\ motor' = motor
            /\ ledc' = ledc
            /\ enablePin' = enablePin
            /\ Len(pub') = 1
            /\ pub'[1].text # "OK"]_vars


(* C16: a message whose topic ends in /feedback or /status is ignored by the
   callback: no actuator state or output changes, no timer is reset and
   nothing is published.  Stated as in the specification; the MOTORS and
   esp32_mqtt_controller callbacks only test for /status. *)
C16_FeedbackAndStatusIgnored ==
  [][(IsCallback /\ IgnoredTopic(msg'.topic))
       => /\ pub' = <<>>
          /\ ActuatorsUnchanged
          /\ hardwareOff' = hardwareOff
          /\ relay'.lastCommandTime = relay.lastCommandTime]_vars


(* feedback payloads of the form OK | ERROR[: reason] *)
GrammarTexts ==
  { "OK", "ERROR",
    "ERROR: Unknown topic prefix: ", "ERROR: Unknown device: ",
    "ERROR: Unknown motor command: ", "ERROR: Unknown light command: ",
    "ERROR: Unknown steam command: " }

(* C17: every feedback the callback published for the message handled last
   went to that message's topic followed by /feedback, with payload OK or
   ERROR[: reason].  Stated as in the specification; MOTORS and
   esp32_mqtt_controller publish their feedback on room1/status. *)
C17_FeedbackTopicAndPayload ==
  \A i \in 1..Len(pub) :
    msg # NoMsg =>
      /\ pub[i].topic = Append(msg.topic, "feedback")
      /\ pub[i].text \in GrammarTexts

(* C18: in each reconnect loop (reconnectWiFi of RELAY and esp32_mqtt_button,
   connectToMqtt of all four sketches) the retry interval in force after k
   consecutive failed attempts since the last success or the boot is
   min(base * 2^k, MAX_RETRY_INTERVAL): it is never above the cap, it does
   not decrease while the streak grows, and it is base when the streak is
   empty, in particular right after a successful attempt. *)
RECURSIVE Pow2(_)
Pow2(k) == IF k = 0 THEN 1 ELSE 2 * Pow2(k - 1)

Backoff(base, k) == Min(base * Pow2(k), MAX_RETRY_INTERVAL(variant))

C18_BackoffIsMinOfDoublingAndCap ==
  /\ conn.mqttRetryInterval = Backoff(MQTT_RETRY_INTERVAL(variant), conn.mqttFails)
  /\ conn.wifiRetryInterval = Backoff(WIFI_RETRY_INTERVAL(variant), conn.wifiFails)
  /\ conn.event = "mqtt_ok" => conn.mqttRetryInterval = MQTT_RETRY_INTERVAL(variant)
  /\ conn.event = "wifi_ok" => conn.wifiRetryInterval = WIFI_RETRY_INTERVAL(variant)

(* a streak of four failed broker attempts, where the cap and not the
   doubling decides the interval, while a WiFi streak is in its doubling part *)
C18_Witness ==
  /\ conn.mqttFails = 4
  /\ conn.mqttRetryInterval = MAX_RETRY_INTERVAL(variant)
  /\ MQTT_RETRY_INTERVAL(variant) * Pow2(4) > MAX_RETRY_INTERVAL(variant)
  /\ conn.wifiFails = 2
  /\ conn.wifiRetryInterval = 4 * WIFI_RETRY_INTERVAL(variant)

(* C19: in every sketch and for both layers the consecutive failed
   connection attempts are bounded: the MAX_WIFI_ATTEMPTS-th (resp.
   MAX_MQTT_ATTEMPTS-th) consecutive failure restarts the device, so a streak
   of failures without a success or a restart in between stays below that
   number, and a success sets the attempt counter to 0. *)
C19_FailedAttemptsBounded ==
  /\ conn.wifiFails < MAX_WIFI_ATTEMPTS(variant)
  /\ conn.mqttFails < MAX_MQTT_ATTEMPTS(variant)
  /\ conn.event = "wifi_ok" => conn.wifiAttempts = 0
  /\ conn.event = "mqtt_ok" => conn.mqttAttempts = 0

(* C20: in every sketch each broker connection is opened with a retained
   last-will "offline" on devices/<clientId>/status, and every "online"
   liveness message, the one sent on a successful connection and the
   periodic republish, is published on that same topic with the retain
   flag set. *)
C20_WillAndOnlineRetained ==
  /\ conn.client =>
       conn.will = [topic |-> <<"devices", CLIENT_ID(variant), "status">>,
                    payload |-> "offline", retained |-> TRUE]
  /\ \A i \in 1..Len(pub) :
       pub[i].text = "online" =>
         /\ pub[i].topic = <<"devices", CLIENT_ID(variant), "status">>
         /\ pub[i].retained

(* C23: the inactivity timer lastCommandTime of the RELAY sketch measures
   the time since the last valid command: a command that is dispatched
   successfully (feedback OK, ACTIVE or INACTIVE) sets it to the current
   time, and a message that is rejected with ERROR feedback (unknown device
   or unknown verb) leaves it as it was. *)
Feedback(text) == \E i \in 1..Len(pub') : pub'[i].text = text

C23_TimerResetByValidCommandsOnly ==
  [][(IsCallback /\ variant = "RELAY" /\ conn.client) =>
       /\ (Feedback("OK") \/ Feedback("ACTIVE") \/ Feedback("INACTIVE"))
            => relay'.lastCommandTime = now
       /\ Feedback("ERROR") => relay'.lastCommandTime = relay.lastCommandTime]_vars

(* C26: while a timed ramp is active and before its end time, each update of
   the motor sets currentSpeed to
   startSpeed + (targetSpeed - startSpeed) * elapsed / durationMs in signed
   integer arithmetic, for accelerating and for decelerating ramps alike.
   Stated as in the specification; the update is the code's, with its
   unsigned long product and quotient. *)
RampReference(ms, t) ==
  ms.rampStartSpeed
    + TruncDiv((ms.targetSpeed - ms.rampStartSpeed) * (t - ms.rampStartTime),
               ms.rampDurationMs)

InsideRamp(m) ==
  /\ motor[m].rampActive
  /\ now' < motor[m].rampStartTime + motor[m].rampDurationMs
  /\ now' - motor[m].lastUpdate >= SMOOTH_DELAY
  /\ ~Skipped(m)

C26_RampIsSignedInterpolation ==
  [][IsTick =>
       \A m \in Motors :
         InsideRamp(m) => motor'[m].currentSpeed = RampReference(motor[m], now')]_vars

(* C28: connectToMqtt never attempts a broker connection while WiFi is down
   (wifiConnected false or the link not connected): a step taken in that
   situation, other than a restart of the device, opens no connection and
   changes neither the broker attempt counter, nor the broker retry
   interval, nor the last-attempt timestamp. *)
IsRestart == now' < now

WifiDown == ~conn.wifiConnected \/ ~conn.wifi

C28_NoBrokerAttemptWhileWifiDown ==
  [][(WifiDown /\ ~IsRestart) =>
       /\ conn'.mqttAttempts = conn.mqttAttempts
       /\ conn'.mqttRetryInterval = conn.mqttRetryInterval
       /\ conn'.lastMqttAttempt = conn.lastMqttAttempt
       /\ conn'.mqttFails = conn.mqttFails
       /\ conn'.client => conn.client]_vars

(* WiFi is down in the middle of a broker failure streak, the broker is not
   connected and its retry interval has elapsed *)
C28_Witness ==
  /\ WifiDown
  /\ ~conn.client
  /\ conn.mqttFails = 2
  /\ now - conn.lastMqttAttempt >= conn.mqttRetryInterval

(* C27: a WiFi or broker reconnect attempt is made only when that layer is
   down and at least the current retry interval has passed since the
   previous attempt of that layer; no attempt is made while the layer is
   connected; and each attempt, successful or not, records its time as the
   new last-attempt timestamp.  An attempt that ends in a restart of the
   device leaves no timestamp and is not constrained. *)
WifiAttempt == \E ok \in BOOLEAN : reconnectWiFi(ok)

MqttAttempt ==
  \E ok \in BOOLEAN :
    \/ connectToMqtt_MOTORS(ok)
    \/ connectToMqtt_RELAY(ok)
    \/ connectToMqtt_CTRL(ok)
    \/ connectToMqtt_BUTTON(ok)

C27_AttemptsOnlyWhenDownAndDue ==
  [][~IsRestart =>
       /\ WifiAttempt =>
            /\ ~conn.wifi
            /\ now - conn.lastWifiAttempt >= conn.wifiRetryInterval
            /\ conn'.lastWifiAttempt = now
       /\ MqttAttempt =>
            /\ ~conn.client
            /\ now - conn.lastMqttAttempt >= conn.mqttRetryInterval
            /\ conn'.lastMqttAttempt = now
       /\ conn.wifi =>
            /\ conn'.lastWifiAttempt = conn.lastWifiAttempt
            /\ conn'.wifiAttempts = conn.wifiAttempts
       /\ conn.client =>
            /\ conn'.lastMqttAttempt = conn.lastMqttAttempt
            /\ conn'.mqttAttempts = conn.mqttAttempts]_vars

(* C24: the inbound-message callback never calls back into client.loop(),
   so no message is handled while the callback of an earlier message is
   still open: every handled message was handled at callback depth 1 *)
C24_CallbackNeverReentered == msg.depth <= 1

(* C25: for every speed s in 1..100 and direction d in {L, R}: after ON:s:d
   was dispatched to a stopped motor while the broker was connected, the
   callback has published exactly one feedback, with payload OK, and the
   first per-tick update after it leaves a non-zero duty on the pin of
   direction d and duty zero on the other pin *)
OnDispatchedToStopped(m, sp, d) ==
  /\ variant = "MOTORS"
  /\ msg.topic = MotorTopic(m)
  /\ msg.payload = OnSpeedDir(sp, d)
  /\ msg.up
  /\ lastCmd[m].name = "ON"
  /\ ~lastCmd[m].moving
  /\ motor[m].currentSpeed = 0

OtherDir(d) == IF d = "L" THEN "R" ELSE "L"

C25_OnThenTickRendersDirection ==
  [][IsTick => \A m \in Motors, sp \in 1..MaxSpeed, d \in Dirs :
        OnDispatchedToStopped(m, sp, d) =>
          /\ Len(pub) = 1
          /\ pub[1].text = "OK"
          /\ ledc'[m][d] > 0
          /\ ledc'[m][OtherDir(d)] = 0]_vars

C25_Witness ==
  /\ variant = "MOTORS"
  /\ msg.topic = T_motor2
  /\ msg.payload = OnSpeedDir(1, "L")
  /\ msg.up
  /\ ~lastCmd[2].moving
  /\ lastCmd[2].from = "R"
  /\ motor[2].currentSpeed = 1
  /\ ledc[2] = [L |-> 2, R |-> 0]
  /\ pub # <<>>

(* C29: RELAY: handling a STOP command leaves every device off
   (deviceStates all false, no expander output driven) and no effect group
   active, and from then on no step switches a device on or activates a
   group, handleEffects calls included, except the handling of a new ON or
   effect-start command *)
RelayAllOff(r) ==
  /\ \A i \in DeviceIdx : ~r.deviceStates[i]
  /\ r.expanderState = {}
  /\ \A g \in GroupIdx : ~r.groupActive[g]

IsStopCommand == IsCallback /\ msg'.topic = T_STOP

IsOnCommand == IsCallback /\ toUpperCase(msg'.payload) \in {W_ON, W_1, W_START}

C29_StopHoldsUntilNewOn ==
  [][variant = "RELAY" =>
       /\ IsStopCommand => RelayAllOff(relay')
       /\ (RelayAllOff(relay) /\ ~IsOnCommand) => RelayAllOff(relay')]_vars

(* STOP was handled while the effect "alone" was running, time has passed
   since, and the switch time of the effect's device has come *)
C29_Witness ==
  /\ variant = "RELAY"
  /\ msg.topic = T_STOP
  /\ RelayAllOff(relay)
  /\ relay.nextSwitchTime[2] > 0
  /\ now >= relay.nextSwitchTime[2]
  /\ now > relay.lastCommandTime
  /\ relay.lastCommandTime > 0

(* C30: with no further commands, every due per-tick update brings the
   motors strictly closer to rest, measured by a natural number (the time a
   running timed ramp has left, the distance of currentSpeed from
   targetSpeed, and the speed a pending direction change will restore), so
   fair updates bring each motor to a state with currentSpeed == targetSpeed
   and no timed ramp active; in that state an update changes nothing of the
   motor's state or outputs *)
Abs(x) == IF x < 0 THEN -x ELSE x

Unrest(ms, t) ==
  (IF ms.rampActive
     THEN Max(0, ms.rampStartTime + ms.rampDurationMs - t) + 1
     ELSE Abs(ms.currentSpeed - ms.targetSpeed))
  + (IF ms.pendingDirectionChange THEN Abs(ms.savedSpeed) + 1 ELSE 0)

AtRest(ms) ==
  /\ ms.currentSpeed = ms.targetSpeed
  /\ ~ms.rampActive
  /\ ~(ms.pendingDirectionChange /\ ms.currentSpeed = 0)

C30_UpdatesReachFixedPoint ==
  [][IsTick =>
       /\ \A m \in Motors :
            AtRest(motor[m]) => motor'[m] = motor[m] /\ ledc'[m] = ledc[m]
       /\ (\E m \in Motors : ~AtRest(motor[m])) =>
            Unrest(motor'[1], now') + Unrest(motor'[2], now')
              < Unrest(motor[1], now) + Unrest(motor[2], now)]_vars

(* a reversal of a running motor has come to rest at the restored speed,
   and an update has run since *)
C30_Witness ==
  /\ lastCmd[focus].name = "DIR"
  /\ lastCmd[focus].moving
  /\ AtRest(motor[focus])
  /\ motor[focus].currentSpeed = 5
  /\ motor[focus].direction = lastCmd[focus].dir
  /\ motor[focus].direction # lastCmd[focus].from
  /\ now > motor[focus].lastUpdate

(* C21: whenever a pass of the run loop finds the WiFi link or the broker
   connection lost, it leaves every actuator off (motors: enabled false,
   currentSpeed 0, enable pin low, duty 0 on both pins; relays: every
   device off, no expander output driven), so no pass taken while the loss
   is seen leaves a non-zero output *)
ActuatorsOff ==
  IF variant = "MOTORS"
    THEN \A m \in Motors :
           /\ ~motor[m].enabled
           /\ motor[m].currentSpeed = 0
           /\ ~enablePin[m]
           /\ ledc[m] = PinsOff
    ELSE /\ \A i \in DeviceIdx : ~relay.deviceStates[i]
         /\ relay.expanderState = {}

----------------------------------------------------------------------------
(* C31: an update in which motor 2's SMOOTH_DELAY interval has elapsed
   applies motor 2's block (ramp step, end of ramp, completion of a
   reversal, slew step) to motor 2, whatever motor 1 is doing.  Stated as in
   the specification; motor 1's block returns from updateMotorSmoothly
   while its timed ramp runs. *)
C31_Motor2UpdateNeverSkipped ==
  [][(IsTick /\ now' - motor[2].lastUpdate >= SMOOTH_DELAY) =>
       motor'[2] = UpdateMotor(motor[2], now').ms]_vars

(* C32: no motor has a timed ramp and a pending reversal at once *)
C32_RampAndPendingExclusive ==
  \A m \in Motors : ~(motor[m].rampActive /\ motor[m].pendingDirectionChange)

(* a DIR for the opposite direction met a moving motor in a timed ramp: the
   reversal is pending and the ramp is gone *)
C32_Witness ==
  \E m \in Motors :
    /\ lastCmd[m].name = "DIR"
    /\ lastCmd[m].ramping
    /\ lastCmd[m].moving
    /\ motor[m].pendingDirectionChange
    /\ ~motor[m].rampActive

(* C33: while hardwareOff is set both motors are in the all-off state; only
   an ON command clears hardwareOff, so OFF, SPEED, DIR and the updates keep
   the all-off state they meet *)
AllOffState(m) ==
  /\ ~motor[m].enabled
  /\ motor[m].currentSpeed = 0
  /\ motor[m].targetSpeed = 0
  /\ ~motor[m].rampActive
  /\ ~motor[m].pendingDirectionChange
  /\ ledc[m] = PinsOff
  /\ ~enablePin[m]

C33_HardwareOffMeansAllOff ==
  [][/\ hardwareOff' => \A m \in Motors : AllOffState(m)'
     /\ (hardwareOff /\ ~hardwareOff') =>
          \E m \in Motors, s \in Speeds, d \in Dirs, r \in Ramps : CmdOn(m, s, d, r)]_vars

(* after a STOP of a commanded motor, a SPEED command and an update have
   been handled with hardwareOff still set *)
C33_Witness ==
  /\ hardwareOff
  /\ focus = 1
  /\ lastCmd[1].name = "SPEED"
  /\ lastCmd[2].name = "STOP"
  /\ lastCmd[2].from = "L"
  /\ now > 0
  /\ \A m \in Motors : AllOffState(m)

(* C34: the enable line of a motor is HIGH exactly when its enabled flag is
   set.  Stated as in the specification; the OFF branch of controlMotor1/2
   clears enabled and does not write the enable pin. *)
C34_EnableLineFollowsFlag ==
  \A m \in Motors : enablePin[m] <=> motor[m].enabled

(* C35: RELAY, I2C expander: the output bit of every configured device is
   its deviceStates entry XOR its inverted flag, before and after every
   call; setDevice(i, s) sets device i's state to s and leaves the state
   and the bit of every other device alone, and a call with an index
   outside 0..DEVICE_COUNT-1 changes nothing *)
BitRendersState(r, i) ==
  (DEVICES[i].pin \in r.expanderState) <=> (r.deviceStates[i] # DEVICES[i].inverted)

C35_ExpanderRendersDeviceStates ==
  [][/\ \A i \in DeviceIdx : BitRendersState(relay, i) /\ BitRendersState(relay', i)
     /\ \A i \in CallIndices, state \in BOOLEAN :
          SetDevice(i, state) =>
            IF i \in DeviceIdx
              THEN /\ relay'.deviceStates[i] = state
                   /\ \A j \in DeviceIdx \ {i} :
                        /\ relay'.deviceStates[j] = relay.deviceStates[j]
                        /\ (DEVICES[j].pin \in relay'.expanderState)
                             <=> (DEVICES[j].pin \in relay.expanderState)
              ELSE relay' = relay]_vars

(* after four calls device 0 alone is on and only its bit (3) is driven:
   the other calls switched a device off again or changed nothing *)
C35_Witness ==
  /\ variant = "RELAY"
  /\ cmds = 4
  /\ relay.deviceStates = [i \in DeviceIdx |-> i = 0]
  /\ relay.expanderState = {DEVICES[0].pin}
  /\ ~relay.allDevicesOff

(* C36: RELAY effects: (1) handleEffects switches a device only if the
   group that owns it is active; (2) stopEffect(g) leaves g inactive and
   every device g was driving off and without owner; (3) startEffect on an
   active group changes nothing; (4) while a group stays stopped none of
   its devices is switched on *)
GroupDevices(g) ==
  {EFFECT_GROUPS[g].deviceIndices[j] : j \in 1..Len(EFFECT_GROUPS[g].deviceIndices)}

Toggled(i) ==
  \/ relay'.deviceStates[i] # relay.deviceStates[i]
  \/ relay'.isEffectOn[i] # relay.isEffectOn[i]

C36_EffectsDriveOnlyWhileActive ==
  [][/\ (\E pick \in RandomPicks : HandleEffects(pick)) =>
          \A i \in DeviceIdx :
            Toggled(i) => /\ relay.activeGroupIndex[i] # -1
                          /\ relay.groupActive[relay.activeGroupIndex[i]]
     /\ \A groupName \in EffectNames :
          LET g == GroupNamed(groupName) IN
          /\ (StopEffect(groupName) /\ g # -1) =>
               /\ ~relay'.groupActive[g]
               /\ \A i \in DeviceIdx :
                    relay.activeGroupIndex[i] = g =>
                      /\ ~relay'.deviceStates[i]
                      /\ relay'.activeGroupIndex[i] = -1
          /\ (g # -1 /\ relay.groupActive[g]
                /\ \E rnd \in [1..2 -> RandomStart] : StartEffect(groupName, rnd)) =>
               relay' = relay
     /\ \A g \in GroupIdx :
          (~relay.groupActive[g] /\ ~relay'.groupActive[g]) =>
            \A i \in GroupDevices(g) : relay'.deviceStates[i] => relay.deviceStates[i]]_vars

(* effect "alone" was started, has switched its device on, was stopped, and
   the time of the switch it had scheduled has passed with the device off *)
C36_Witness ==
  /\ variant = "RELAY"
  /\ ~relay.groupActive[1]
  /\ relay.isEffectOn[2]
  /\ relay.activeGroupIndex[2] = -1
  /\ ~relay.deviceStates[2]
  /\ now > relay.nextSwitchTime[2]
  /\ relay.groupActive[0]

(* C37: RELAY: an effects command is answered ACTIVE only if the group it
   names exists and is active after the command, and INACTIVE only if the
   group exists and is inactive after it.  Stated as in the specification;
   the callback publishes ACTIVE after startEffect whatever startEffect did. *)
C37_EffectFeedbackMatchesGroup ==
  [][(IsCallback /\ variant = "RELAY" /\ hasEffectsLevel(msg'.topic)) =>
       LET g == GroupNamed(msg'.topic[Len(msg'.topic)])
       IN /\ Feedback("ACTIVE") => (g # -1 /\ relay'.groupActive[g])
          /\ Feedback("INACTIVE") => (g # -1 /\ ~relay'.groupActive[g])]_vars

(* C38: button: a call of wasButtonPressed that returns true comes at
   least BUTTON_COOLDOWN after the previous call that returned true, and its
   sample is LOW at the end of an unbroken run of LOW samples that began
   more than DEBOUNCE_DELAY earlier *)
IsPoll == cmds' = cmds + 1

C38_TrueIsDebouncedAndSpaced ==
  [][(IsPoll /\ button'.ret) =>
       /\ button.lastTrue # -1 => now' - button.lastTrue >= BUTTON_COOLDOWN
       /\ button'.lastButtonState = "LOW"
       /\ button'.lowSince # -1
       /\ now' - button'.lowSince > DEBOUNCE_DELAY]_vars

(* a second press has been reported, a release and a cooldown after the first *)
C38_Witness ==
  /\ variant = "BUTTON"
  /\ button.ret
  /\ button.trues = 2
  /\ button.lastTrue = now
  /\ now - button.lowSince > DEBOUNCE_DELAY

(* C39: button: within one unbroken run of LOW samples only the first
   sample taken more than DEBOUNCE_DELAY after the start of the run can
   make wasButtonPressed return true: a held button does not fire again, and
   a press that the cooldown rejected is not reported by a later call of the
   same run, also when the cooldown has expired by then *)
C39_OneReportPerPress ==
  [][(IsPoll /\ button'.ret) => ~button.lowSettled]_vars

(* the button was pressed during the cooldown, the press was rejected, and
   it is still held down, unreported, after the cooldown has expired *)
C39_Witness ==
  /\ variant = "BUTTON"
  /\ button.lastTrue # -1
  /\ button.lowSince # -1
  /\ button.lowSince - button.lastTrue < BUTTON_COOLDOWN
  /\ button.lowSince > button.lastTrue
  /\ button.lowSettled
  /\ now - button.lastTrue >= BUTTON_COOLDOWN + DEBOUNCE_DELAY
  /\ ~button.ret

(* C40: RELAY: the flag mqttConnected is never set while the flag
   wifiConnected is clear.  Stated as in the specification; a failed
   initializeWiFi inside reconnectWiFi clears wifiConnected alone. *)
C40_MqttFlagImpliesWifiFlag ==
  variant = "RELAY" => (conn.mqttConnected => conn.wifiConnected)

====
